---------------------------- MODULE Spec2Model ----------------------------
(***************************************************************************)
(* abDraw: the shape collection of CanvasManager, its connections between  *)
(* line endpoints and shapes, and its snapshot-based undo/redo history,    *)
(* driven by the pointer and keyboard handlers of DrawingApp and by the    *)
(* load/save operations of FileManager.                                    *)
(*                                                                         *)
(* Coordinates are integers.  Every coordinate that enters the model is    *)
(* even, so that the midpoints (a + b) / 2 of the code are exact.          *)
(* Distances are compared through their squares: sqrt is monotone, so      *)
(* dist < min_dist holds exactly when dist^2 < min_dist^2.                 *)
(***************************************************************************)
EXTENDS Integers, Sequences, FiniteSets, TLC

VARIABLES
    shapes,            \* CanvasManager.shapes: the live Shape objects, back to front
    next_shape_id,     \* CanvasManager.next_shape_id
    undo_stack,        \* CanvasManager.undo_stack: snapshots, oldest first
    redo_stack,        \* CanvasManager.redo_stack
    selected_shape,    \* CanvasManager.selected_shape: position in shapes, NoSel for None
    clipboard,         \* CanvasManager.clipboard: <<>> for None, else <<Shape>>
    editing_endpoint,  \* CanvasManager.editing_endpoint: "start", "end" or None
    editing_waypoint,  \* DrawingApp.editing_waypoint: None, "start", "end" or a waypoint index
    resizing_shape,    \* DrawingApp.resizing_shape
    resize_handle,     \* DrawingApp.resize_handle: "nw","ne","sw","se" or None
    current_tool,      \* DrawingApp.current_tool
    ortho_in_progress, \* DrawingApp.ortho_in_progress
    ortho_start,       \* DrawingApp.ortho_start: <<>> for None, else <<point>>
    ortho_waypoints,   \* DrawingApp.ortho_waypoints
    drag_data,         \* CanvasManager.drag_data of the gesture in progress: <<>> or <<record>>
    pointer,           \* pointer position while the button is held: <<>> or <<x, y>>
    disk,              \* the shape records of the drawing file on disk: <<>> or <<records>>
    modified,          \* FileManager.modified
    budget,            \* how many more times the session records a state
    recorded,          \* history variable: the snapshots recorded since the last undo or redo
    last_call,         \* history variable: the last operation and the state it started from
    ortho_call         \* a direct call of the static method CanvasManager.ortho_path:
                       \* its arguments and, once it has returned, <<its result>>

vars == <<shapes, next_shape_id, undo_stack, redo_stack, selected_shape, clipboard,
          editing_endpoint, editing_waypoint, resizing_shape, resize_handle,
          current_tool, ortho_in_progress, ortho_start, ortho_waypoints,
          drag_data, pointer, disk, modified, budget, recorded, last_call,
          ortho_call>>

-----------------------------------------------------------------------------
(* Program constants *)

max_undo == 50

snap_distance == 15

grid_spacing == 20

COPY_OFFSET == 20

LINE_TYPES == {"line", "arrow", "ortho_line", "ortho_arrow"}

None == "None"

-----------------------------------------------------------------------------
(* Bounds of the model *)

\* add_shape is not called with this many shapes alive
MaxShapes == 2

\* no new id is handed out once next_shape_id has reached this value
MaxNextId == 4

\* the number of recording operations of a session
MaxRecords == 3

\* the number of recording operations of a long session, which fills the history
LongSession == 52

\* no further waypoint is clicked once an ortho line in progress has this many
MaxWaypoints == 1

\* the longest point list handed to ortho_path directly
MaxPoints == 3

-----------------------------------------------------------------------------
(* Small arithmetic *)

Abs(n) == IF n < 0 THEN -n ELSE n

Sq(n) == n * n

\* Python's round(): to the nearest integer, a tie to the even one; here of num / den
RoundDiv(num, den) ==
    LET q == num \div den
        r == num % den
    IN  IF 2 * r < den THEN q
        ELSE IF 2 * r > den THEN q + 1
        ELSE IF q % 2 = 0 THEN q ELSE q + 1

Last(s) == s[Len(s)]

Front(s) == SubSeq(s, 1, Len(s) - 1)

-----------------------------------------------------------------------------
(* shapes.py: Shape, its dictionary form, copy *)

\* the fields of a Shape that the shape collection, the connections and the
\* history read; colour, width, fill, font and label are carried along unread
DictFields == {"shape_id", "shape_type", "x1", "y1", "x2", "y2",
               "connections", "routing", "waypoints"}

ShapeFields == DictFields \cup {"canvas_id"}

\* the dataclass defaults of the fields a record may lack
FieldDefault(f) ==
    CASE f = "shape_id"    -> 0
      [] f = "connections" -> <<>>
      [] f = "routing"     -> "h_first"
      [] f = "waypoints"   -> <<>>
      [] f = "canvas_id"   -> None

\* Shape.to_dict: asdict (a deep copy of every field) without canvas_id
ToDict(s) == [f \in DictFields |-> s[f]]

\* the fields of the dataclass without a default: Shape(**data) raises TypeError
\* when the record lacks one of them
RequiredFields == {"x1", "y1", "x2", "y2", "shape_type"}

\* Shape.from_dict(d) returns a shape
Loadable(d) == RequiredFields \subseteq DOMAIN d

\* FieldDefault with vertical-first routing as the default
FieldDefault_vertical(f) ==
    CASE f = "shape_id"    -> 0
      [] f = "connections" -> <<>>
      [] f = "routing"     -> "v_first"
      [] f = "waypoints"   -> <<>>
      [] f = "canvas_id"   -> None

\* from_dict taking vertical-first routing for a record without routing
FromDict_vertical(d) ==
    [f \in ShapeFields |->
        IF f = "canvas_id" THEN None
        ELSE IF f \in DOMAIN d THEN d[f]
        ELSE FieldDefault_vertical(f)]

\* Shape.from_dict: canvas_id dropped, routing and waypoints defaulted, the rest
\* handed to the constructor; the new object is not drawn (canvas_id None)
FromDict(d) ==
    [f \in ShapeFields |->
        IF f = "canvas_id" THEN None
        ELSE IF f \in DOMAIN d THEN d[f]
        ELSE FieldDefault(f)]

\* Shape(...): the constructor call of create_shape
NewShape(type, x1, y1, x2, y2) ==
    [shape_id |-> 0, shape_type |-> type, x1 |-> x1, y1 |-> y1, x2 |-> x2, y2 |-> y2,
     connections |-> <<>>, routing |-> "h_first", waypoints |-> <<>>, canvas_id |-> None]

\* Shape.get_bounds
get_bounds(s) ==
    <<IF s.x1 < s.x2 THEN s.x1 ELSE s.x2, IF s.y1 < s.y2 THEN s.y1 ELSE s.y2,
      IF s.x1 > s.x2 THEN s.x1 ELSE s.x2, IF s.y1 > s.y2 THEN s.y1 ELSE s.y2>>

\* Shape.copy: the dictionary form shifted by 20, connections emptied; the id is kept
ShapeCopy(s) ==
    LET d == ToDict(s)
        e == [d EXCEPT !.x1 = @ + COPY_OFFSET, !.y1 = @ + COPY_OFFSET,
                       !.x2 = @ + COPY_OFFSET, !.y2 = @ + COPY_OFFSET,
                       !.connections = <<>>,
                       !.waypoints = [k \in 1..Len(@) |->
                                        <<@[k][1] + COPY_OFFSET, @[k][2] + COPY_OFFSET>>]]
    IN  FromDict(e)

-----------------------------------------------------------------------------
(* canvas_manager.py: snapping *)

\* the anchor points of a shape, in the order get_snap_point lists them
\* snap_points without the edge midpoints of a rectangle
SnapPoints_corners(s) ==
    IF s.shape_type \in {"rectangle", "square"} THEN
        << <<s.x1, s.y1>>, <<s.x2, s.y1>>, <<s.x1, s.y2>>, <<s.x2, s.y2>> >>
    ELSE IF s.shape_type \in {"circle", "ellipse"} THEN
        LET cx == (s.x1 + s.x2) \div 2
            cy == (s.y1 + s.y2) \div 2
            rx == Abs(s.x2 - s.x1) \div 2
            ry == Abs(s.y2 - s.y1) \div 2
        IN  << <<cx - rx, cy>>, <<cx + rx, cy>>, <<cx, cy - ry>>, <<cx, cy + ry>> >>
    ELSE IF s.shape_type = "triangle" THEN
        << <<(s.x1 + s.x2) \div 2, s.y1>>, <<s.x1, s.y2>>, <<s.x2, s.y2>> >>
    ELSE <<>>

SnapPoints(s) ==
    IF s.shape_type \in {"rectangle", "square"} THEN
        << <<s.x1, s.y1>>, <<s.x2, s.y1>>, <<s.x1, s.y2>>, <<s.x2, s.y2>>,
           <<(s.x1 + s.x2) \div 2, s.y1>>, <<(s.x1 + s.x2) \div 2, s.y2>>,
           <<s.x1, (s.y1 + s.y2) \div 2>>, <<s.x2, (s.y1 + s.y2) \div 2>> >>
    ELSE IF s.shape_type \in {"circle", "ellipse"} THEN
        LET cx == (s.x1 + s.x2) \div 2
            cy == (s.y1 + s.y2) \div 2
            rx == Abs(s.x2 - s.x1) \div 2
            ry == Abs(s.y2 - s.y1) \div 2
        IN  << <<cx - rx, cy>>, <<cx + rx, cy>>, <<cx, cy - ry>>, <<cx, cy + ry>> >>
    ELSE IF s.shape_type = "triangle" THEN
        << <<(s.x1 + s.x2) \div 2, s.y1>>, <<s.x1, s.y2>>, <<s.x2, s.y2>> >>
    ELSE <<>>

RECURSIVE ScanPoints_last_tie(_, _, _, _, _)
\* the inner loop with `dist <= min_dist`: of equally near anchors the last wins
ScanPoints_last_tie(pts, i, x, y, best) ==
    IF pts = <<>> THEN best
    ELSE LET p  == Head(pts)
             d2 == Sq(x - p[1]) + Sq(y - p[2])
         IN  ScanPoints_last_tie(Tail(pts), i, x, y,
                        IF d2 <= best.d2 /\ d2 < Sq(snap_distance)
                        THEN [d2 |-> d2, x |-> p[1], y |-> p[2], shape |-> i]
                        ELSE best)

RECURSIVE ScanPoints_farthest(_, _, _, _, _)
\* the inner loop with the comparison turned round: of the anchors within
\* snap_distance the farthest wins
ScanPoints_farthest(pts, i, x, y, best) ==
    IF pts = <<>> THEN best
    ELSE LET p  == Head(pts)
             d2 == Sq(x - p[1]) + Sq(y - p[2])
         IN  ScanPoints_farthest(Tail(pts), i, x, y,
                        IF d2 < Sq(snap_distance) /\ (best.shape = 0 \/ d2 > best.d2)
                        THEN [d2 |-> d2, x |-> p[1], y |-> p[2], shape |-> i]
                        ELSE best)

RECURSIVE ScanPoints(_, _, _, _, _)
\* the inner loop of get_snap_point over the anchors pts of shape number i:
\* best = [d2, x, y, shape] is (min_dist^2, snap_x, snap_y, snap_shape)
ScanPoints(pts, i, x, y, best) ==
    IF pts = <<>> THEN best
    ELSE LET p  == Head(pts)
             d2 == Sq(x - p[1]) + Sq(y - p[2])
         IN  ScanPoints(Tail(pts), i, x, y,
                        IF d2 < best.d2
                        THEN [d2 |-> d2, x |-> p[1], y |-> p[2], shape |-> i]
                        ELSE best)

RECURSIVE ScanShapes_all(_, _, _, _, _, _)
\* the outer loop without its `continue`: no shape is skipped
ScanShapes_all(ss, i, x, y, exclude, best) ==
    IF i > Len(ss) THEN best
    ELSE ScanShapes_all(ss, i + 1, x, y, exclude,
                        ScanPoints(SnapPoints(ss[i]), i, x, y, best))

RECURSIVE ScanShapes(_, _, _, _, _, _)
\* the outer loop of get_snap_point over the shapes from position i on
ScanShapes(ss, i, x, y, exclude, best) ==
    IF i > Len(ss) THEN best
    ELSE IF i = exclude \/ ss[i].shape_type \in LINE_TYPES
         THEN ScanShapes(ss, i + 1, x, y, exclude, best)
         ELSE ScanShapes(ss, i + 1, x, y, exclude,
                         ScanPoints(SnapPoints(ss[i]), i, x, y, best))

\* get_snap_point with `dist <= self.snap_distance` for the first anchor taken
get_snap_point_inclusive(ss, x, y, exclude) ==
    LET r == ScanShapes(ss, 1, x, y, exclude,
                        [d2 |-> Sq(snap_distance) + 1, x |-> x, y |-> y, shape |-> 0])
    IN  [x |-> r.x, y |-> r.y, shape |-> r.shape]

\* CanvasManager.get_snap_point(x, y, exclude_shape) over the shapes ss: the record
\* [x, y, shape], shape being the position of snap_shape in ss, 0 for None.
\* exclude is the position of exclude_shape (0 for None): live Shape objects differ
\* in canvas_id, so == between two of them is identity.
get_snap_point(ss, x, y, exclude) ==
    LET r == ScanShapes(ss, 1, x, y, exclude,
                        [d2 |-> Sq(snap_distance), x |-> x, y |-> y, shape |-> 0])
    IN  [x |-> r.x, y |-> r.y, shape |-> r.shape]

\* CanvasManager.get_connection_point(target_shape, line_shape, endpoint), the line
\* being number li of ss: target_shape is not read
get_connection_point(ss, target, li, endpoint) ==
    LET l == ss[li]
        r == IF endpoint = "start" THEN get_snap_point(ss, l.x1, l.y1, li)
             ELSE get_snap_point(ss, l.x2, l.y2, li)
    IN  <<r.x, r.y>>

\* next((s for s in self.shapes if s.shape_id == id), None): position of the first
\* shape with that id, 0 for None
FindById(ss, id) ==
    IF \E i \in 1..Len(ss) : ss[i].shape_id = id
    THEN CHOOSE i \in 1..Len(ss) :
            ss[i].shape_id = id /\ \A j \in 1..(i - 1) : ss[j].shape_id # id
    ELSE 0

\* the assignment of a resolved point to one endpoint of a line
SetEndpoint(l, endpoint, p) ==
    IF endpoint = "start" THEN [l EXCEPT !.x1 = p[1], !.y1 = p[2]]
    ELSE [l EXCEPT !.x2 = p[1], !.y2 = p[2]]

RECURSIVE ResolveConns(_, _, _, _)
\* the loop over the connections of line number li, from connection k on, that
\* re-resolves each connection selected by the set of target ids `ids`
ResolveConns(ss, li, k, ids) ==
    IF k > Len(ss[li].connections) THEN ss
    ELSE LET c == ss[li].connections[k]
             t == FindById(ss, c.target_id)
         IN  IF c.target_id \in ids
             THEN ResolveConns(
                    [ss EXCEPT ![li] = SetEndpoint(@, c.endpoint,
                                          get_connection_point(ss, t, li, c.endpoint))],
                    li, k + 1, ids)
             ELSE ResolveConns(ss, li, k + 1, ids)

RECURSIVE ResolveLines(_, _, _)
ResolveLines(ss, li, ids) ==
    IF li > Len(ss) THEN ss
    ELSE IF ss[li].shape_type \in LINE_TYPES
         THEN ResolveLines(ResolveConns(ss, li, 1, ids), li + 1, ids)
         ELSE ResolveLines(ss, li + 1, ids)

AllIds(ss) == {ss[i].shape_id : i \in 1..Len(ss)}

\* rebuild_connections without the lookup of the target: every connection is
\* resolved, whether or not a shape carries its target id
rebuild_connections_unchecked(ss) ==
    ResolveLines(ss, 1,
        AllIds(ss) \cup UNION { {ss[i].connections[n].target_id :
                                    n \in 1..Len(ss[i].connections)} : i \in 1..Len(ss) })

\* CanvasManager.rebuild_connections
rebuild_connections(ss) == ResolveLines(ss, 1, AllIds(ss))

\* update_connected_lines without the test on the target id: every connection
\* of every line is resolved again
update_connected_lines_all(ss, mi) == ResolveLines(ss, 1, AllIds(ss))

\* CanvasManager.update_connected_lines(moved_shape), moved_shape being number mi
update_connected_lines(ss, mi) == ResolveLines(ss, 1, {ss[mi].shape_id})

-----------------------------------------------------------------------------
(* canvas_manager.py: shape lifecycle and history, as functions of the state *)

RECURSIVE Routed_always(_, _, _, _)
\* the loop without the test of dx and dy: a bend is put before every point
Routed_always(points, i, routing, result) ==
    IF i > Len(points) THEN result
    ELSE LET prev == Last(result)
             curr == points[i]
             bent == IF routing = "v_first"
                     THEN Append(result, <<prev[1], curr[2]>>)
                     ELSE Append(result, <<curr[1], prev[2]>>)
         IN  Routed_always(points, i + 1, routing, Append(bent, curr))

RECURSIVE Routed_swapped(_, _, _, _)
\* the loop with the two bend points exchanged between the routings
Routed_swapped(points, i, routing, result) ==
    IF i > Len(points) THEN result
    ELSE LET prev == Last(result)
             curr == points[i]
             dx   == Abs(curr[1] - prev[1])
             dy   == Abs(curr[2] - prev[2])
             bent == IF 2 * dx > 1 /\ 2 * dy > 1
                     THEN IF routing = "v_first"
                          THEN Append(result, <<curr[1], prev[2]>>)
                          ELSE Append(result, <<prev[1], curr[2]>>)
                     ELSE result
         IN  Routed_swapped(points, i + 1, routing, Append(bent, curr))

RECURSIVE Routed_stairs(_, _, _, _)
\* the loop reaching a point that is not aligned by two bend points, half way
Routed_stairs(points, i, routing, result) ==
    IF i > Len(points) THEN result
    ELSE LET prev == Last(result)
             curr == points[i]
             dx   == Abs(curr[1] - prev[1])
             dy   == Abs(curr[2] - prev[2])
             mid  == (prev[1] + curr[1]) \div 2
             bent == IF 2 * dx > 1 /\ 2 * dy > 1
                     THEN result \o << <<mid, prev[2]>>, <<mid, curr[2]>> >>
                     ELSE result
         IN  Routed_stairs(points, i + 1, routing, Append(bent, curr))

RECURSIVE Routed(_, _, _, _)
\* the loop of ortho_path from point number i on, result being the path so far;
\* coordinates are integers, so `> 0.5` is written on the doubled difference
Routed(points, i, routing, result) ==
    IF i > Len(points) THEN result
    ELSE LET prev == Last(result)
             curr == points[i]
             dx   == Abs(curr[1] - prev[1])
             dy   == Abs(curr[2] - prev[2])
             bent == IF 2 * dx > 1 /\ 2 * dy > 1
                     THEN IF routing = "v_first"
                          THEN Append(result, <<prev[1], curr[2]>>)
                          ELSE Append(result, <<curr[1], prev[2]>>)
                     ELSE result
         IN  Routed(points, i + 1, routing, Append(bent, curr))

\* ortho_path without its early return: the first point is read even when
\* there is none, and then stands for the missing point
ortho_path_no_guard(points, routing) ==
    Routed(points, 2, routing, <<IF points = <<>> THEN <<0, 0>> ELSE points[1]>>)

\* ortho_path that joins the points as they are, without bend points
ortho_path_direct(points, routing) == points

\* CanvasManager.ortho_path(points, routing)
ortho_path(points, routing) ==
    IF Len(points) < 2 THEN points
    ELSE Routed(points, 2, routing, <<points[1]>>)

\* all_pts of draw_shape for an ortho line: start, waypoints, end
AllPts(s) == <<<<s.x1, s.y1>>>> \o s.waypoints \o <<<<s.x2, s.y2>>>>

\* the path draw_shape gives the canvas item of an ortho line
PathOf(s) == ortho_path(AllPts(s), s.routing)

\* CanvasManager.draw_shape: the shape gets its canvas item
draw_shape(s) == [s EXCEPT !.canvas_id = "item"]

\* the dictionary {'shapes': [s.to_dict() for s in self.shapes], 'next_id': ...}
Snapshot(ss, nid) ==
    [shapes |-> [i \in 1..Len(ss) |-> ToDict(ss[i])], next_id |-> nid]

\* the snapshot st as it reads when it holds the live Shape objects themselves
\* rather than copies: every shape of it that is still live shows its present fields
Aliased(st, ss) ==
    [st EXCEPT !.shapes =
        [k \in 1..Len(@) |->
            IF \E i \in 1..Len(ss) : ss[i].shape_id = @[k].shape_id
            THEN ToDict(ss[CHOOSE i \in 1..Len(ss) : ss[i].shape_id = @[k].shape_id])
            ELSE @[k]]]

\* record_state storing the Shape objects, not their to_dict copies
record_state_shallow(us, ss, nid) ==
    LET pushed == Append([k \in 1..Len(us) |-> Aliased(us[k], ss)], Snapshot(ss, nid))
    IN  IF Len(pushed) > max_undo THEN Tail(pushed) ELSE pushed

\* record_state with the newest snapshot dropped on overflow
record_state_newest_out(us, ss, nid) ==
    LET pushed == Append(us, Snapshot(ss, nid))
    IN  IF Len(pushed) > max_undo THEN Front(pushed) ELSE pushed

\* CanvasManager.record_state on the undo stack us: the stack after the call
record_state(us, ss, nid) ==
    LET pushed == Append(us, Snapshot(ss, nid))
    IN  IF Len(pushed) > max_undo THEN Tail(pushed) ELSE pushed

\* add_shape that gives every shape a new id, whatever id it carries
add_shape_renumbering(d, shape) ==
    [shapes  |-> Append(d.shapes, draw_shape([shape EXCEPT !.shape_id = d.next_id])),
     next_id |-> d.next_id + 1]

\* CanvasManager.add_shape(shape, record_undo=False) on the drawing d = [shapes, next_id]
add_shape(d, shape) ==
    LET assigned == IF shape.shape_id = 0
                    THEN [shape EXCEPT !.shape_id = d.next_id]
                    ELSE shape
    IN  [shapes  |-> Append(d.shapes, draw_shape(assigned)),
         next_id |-> IF shape.shape_id = 0 THEN d.next_id + 1 ELSE d.next_id]

\* a record completed with a rectangle at the origin for what it lacks
Completed(d) ==
    [f \in DictFields |->
        IF f \in DOMAIN d THEN d[f]
        ELSE IF f = "shape_type" THEN "rectangle"
        ELSE IF f \in RequiredFields THEN 0
        ELSE FieldDefault(f)]

RECURSIVE AddAll_defaulting(_, _)
\* the loading loop with every missing field defaulted: no record stops it
AddAll_defaulting(d, dicts) ==
    IF dicts = <<>> THEN d
    ELSE AddAll_defaulting(add_shape(d, FromDict(Completed(Head(dicts)))), Tail(dicts))

RECURSIVE AddAll(_, _)
\* for shape_data in ...: self.add_shape(Shape.from_dict(shape_data), record_undo=False)
\* The loop ends at the first record from_dict raises on; the shapes added before
\* it stay.
AddAll(d, dicts) ==
    IF dicts = <<>> THEN d
    ELSE IF ~Loadable(Head(dicts)) THEN d
    ELSE AddAll(add_shape(d, FromDict(Head(dicts))), Tail(dicts))

\* the loading loop of open_drawing raises on one of the records
LoadFails(dicts) == \E k \in 1..Len(dicts) : ~Loadable(dicts[k])

\* the drawing after CanvasManager.clear_all
Cleared == [shapes |-> <<>>, next_id |-> 1]

\* CanvasManager.restore_state(state): the drawing after the call
restore_state(state) ==
    LET d == AddAll([Cleared EXCEPT !.next_id = state.next_id], state.shapes)
    IN  [d EXCEPT !.shapes = rebuild_connections(@)]

\* the body of FileManager.open_drawing after the file has been read: the drawing
\* after clear_all, the add_shape of every stored record and rebuild_connections
LoadShapes(dicts) ==
    LET d == AddAll(Cleared, dicts)
    IN  IF LoadFails(dicts) THEN d
        ELSE [d EXCEPT !.shapes = rebuild_connections(@)]

\* every connection of s dropped, whatever its target
DropEvery(s, id) ==
    [s EXCEPT !.connections = <<>>]

\* the connections of s without those to the shape with the given id
DropTarget(s, id) ==
    [s EXCEPT !.connections = SelectSeq(@, LAMBDA c : c.target_id # id)]

\* delete_shape without the pruning: the other shapes keep their connections
delete_shape_unpruned(ss, i) ==
    SubSeq(ss, 1, i - 1) \o SubSeq(ss, i + 1, Len(ss))

\* the shapes after CanvasManager.delete_shape of shape number i
delete_shape(ss, i) ==
    LET id      == ss[i].shape_id
        pruned  == [k \in 1..Len(ss) |-> DropTarget(ss[k], id)]
    IN  SubSeq(pruned, 1, i - 1) \o SubSeq(pruned, i + 1, Len(pruned))

\* membership by id instead of by object
IsMemberById(ss, shape) == \E i \in 1..Len(ss) : ss[i].shape_id = shape.shape_id

\* shape in self.shapes, for a Shape object that is not one of the live objects:
\* dataclass equality over all fields, canvas_id included
IsMember(ss, shape) == \E i \in 1..Len(ss) : ss[i] = shape

\* the connections of s with the entry of one endpoint replaced by one to target
\* (position in ss), or removed when target is 0
\* the connection update without the filter on the endpoint: entries only add up
Reconnect_appending(ss, s, endpoint, target) ==
    [s EXCEPT !.connections =
        IF target # 0
        THEN Append(@, [target_id |-> ss[target].shape_id, endpoint |-> endpoint])
        ELSE @]

Reconnect(ss, s, endpoint, target) ==
    LET kept == SelectSeq(s.connections, LAMBDA c : c.endpoint # endpoint)
    IN  [s EXCEPT !.connections =
            IF target # 0
            THEN Append(kept, [target_id |-> ss[target].shape_id, endpoint |-> endpoint])
            ELSE kept]

\* DrawingApp.snap_point with snap_to_grid on
snap_point(p) ==
    <<RoundDiv(p[1], grid_spacing) * grid_spacing, RoundDiv(p[2], grid_spacing) * grid_spacing>>

\* the shape moved by (dx, dy): both corners and every waypoint
Moved(s, dx, dy) ==
    [s EXCEPT !.x1 = @ + dx, !.y1 = @ + dy, !.x2 = @ + dx, !.y2 = @ + dy,
              !.waypoints = [k \in 1..Len(@) |-> <<@[k][1] + dx, @[k][2] + dy>>]]

\* the `else` branch of the resize in on_drag (rectangle, triangle): the corner
\* named by the handle is put at (x, y)
Resized(s, handle, x, y) ==
    CASE handle = "nw" -> [s EXCEPT !.x1 = x, !.y1 = y]
      [] handle = "ne" -> [s EXCEPT !.x2 = x, !.y1 = y]
      [] handle = "sw" -> [s EXCEPT !.x1 = x, !.y2 = y]
      [] handle = "se" -> [s EXCEPT !.x2 = x, !.y2 = y]

-----------------------------------------------------------------------------
(* Inputs of the model: what the user does with the pointer *)

\* where the user presses to start a shape with a drawing tool
DrawStart(tool) == IF tool = "rectangle" THEN <<0, 0>> ELSE <<20, 0>>

\* where the user presses when missing every shape
Away == <<80, 60>>

\* pointer positions of drags, releases and right clicks
Pts == { <<60, 20>> }

\* the resize handles the user takes
Handles == {"nw", "se"}

-----------------------------------------------------------------------------
(* State shared by the handlers *)

NoSel == 0

NoWaypoint == [kind |-> None, idx |-> 0]

EndWaypoint(ep) == [kind |-> ep, idx |-> 0]

IdxWaypoint(k) == [kind |-> "index", idx |-> k]

\* the history variable: the operation, its argument, and the stack depths before it
Call(op, arg) ==
    [op |-> op, arg |-> arg, undo_len |-> Len(undo_stack), redo_len |-> Len(redo_stack)]

drawing == <<shapes, next_shape_id>>

history == <<undo_stack, redo_stack, budget, recorded>>

selection == <<selected_shape, editing_endpoint, editing_waypoint,
               resizing_shape, resize_handle>>

ortho == <<ortho_in_progress, ortho_start, ortho_waypoints>>

mouse == <<drag_data, pointer>>

\* clear_selection without its first assignment: the handles are reset, the
\* selected shape is kept
clear_selection_keeping ==
    /\ UNCHANGED selected_shape
    /\ editing_endpoint' = None
    /\ editing_waypoint' = NoWaypoint
    /\ resizing_shape' = FALSE
    /\ resize_handle' = None

\* CanvasManager.clear_selection
clear_selection ==
    /\ selected_shape' = NoSel
    /\ editing_endpoint' = None
    /\ editing_waypoint' = NoWaypoint
    /\ resizing_shape' = FALSE
    /\ resize_handle' = None

\* the cancellation that forgets to empty the list of waypoints
cancel_ortho_drawing_keeping ==
    /\ ortho_in_progress' = FALSE
    /\ ortho_start' = <<>>
    /\ UNCHANGED ortho_waypoints

\* DrawingApp._cancel_ortho_drawing
cancel_ortho_drawing ==
    /\ ortho_in_progress' = FALSE
    /\ ortho_start' = <<>>
    /\ ortho_waypoints' = <<>>

\* record_state without self.redo_stack.clear()
RecordedKeepingRedo(ss, nid) ==
    /\ budget > 0
    /\ budget' = budget - 1
    /\ undo_stack' = record_state(undo_stack, ss, nid)
    /\ UNCHANGED redo_stack
    /\ recorded' = Append(recorded, Snapshot(ss, nid))

\* a call of CanvasManager.record_state() with the drawing (ss, nid) live, the
\* part on the history: the snapshot is pushed and the redo stack emptied
Recorded(ss, nid) ==
    /\ budget > 0
    /\ budget' = budget - 1
    /\ undo_stack' = record_state(undo_stack, ss, nid)
    /\ redo_stack' = <<>>
    /\ recorded' = Append(recorded, Snapshot(ss, nid))

\* a call of CanvasManager.record_state(): mark_modified comes last
RecordState(ss, nid) ==
    /\ Recorded(ss, nid)
    /\ modified' = TRUE

\* room for one more shape and one more id
CanAdd == Len(shapes) < MaxShapes /\ next_shape_id < MaxNextId

Selected == shapes[selected_shape]

\* the state after DrawingApp.__init__, for a session of n recording operations
\* with one of the given files on disk
Idle(n, files) ==
    /\ shapes = <<>>
    /\ next_shape_id = 1
    /\ undo_stack = <<>>
    /\ redo_stack = <<>>
    /\ selected_shape = NoSel
    /\ clipboard = <<>>
    /\ editing_endpoint = None
    /\ editing_waypoint = NoWaypoint
    /\ resizing_shape = FALSE
    /\ resize_handle = None
    /\ current_tool = "select"
    /\ ortho_in_progress = FALSE
    /\ ortho_start = <<>>
    /\ ortho_waypoints = <<>>
    /\ drag_data = <<>>
    /\ pointer = <<>>
    /\ disk \in files
    /\ modified = FALSE
    /\ budget = n
    /\ recorded = <<>>
    /\ last_call = [op |-> "init", arg |-> 0, undo_len |-> 0, redo_len |-> 0]

\* no direct call of ortho_path is made
NoCall == [points |-> <<>>, routing |-> "h_first", returned |-> <<<<>>>>]

\* the application started with n recording operations ahead and one of `files`
\* on disk
Start(n, files) == Idle(n, files) /\ ortho_call = NoCall

Init == Start(MaxRecords, {<<>>})

-----------------------------------------------------------------------------
(* drawing_app.py: tool selection and on_press *)

\* DrawingApp.select_tool, from a toolbar button (the canvas button is up)
SelectTool(tool) ==
    /\ pointer = <<>>
    /\ tool # current_tool \/ ortho_in_progress
    /\ cancel_ortho_drawing
    /\ current_tool' = tool
    /\ clear_selection
    /\ last_call' = Call("select_tool", 0)
    /\ UNCHANGED <<drawing, history, clipboard, mouse, disk, modified, ortho_call>>

\* on_press with an ortho tool: the first click sets the start, the later ones add
\* waypoints; nothing else of the press and its release is read
PressOrtho(p) ==
    /\ pointer = <<>>
    /\ current_tool \in {"ortho_line", "ortho_arrow"}
    /\ IF ~ortho_in_progress
       THEN /\ ortho_in_progress' = TRUE
            /\ ortho_start' = <<snap_point(p)>>
            /\ ortho_waypoints' = <<>>
       ELSE /\ Len(ortho_waypoints) < MaxWaypoints
            /\ ortho_waypoints' = Append(ortho_waypoints, snap_point(p))
            /\ UNCHANGED <<ortho_in_progress, ortho_start>>
    /\ last_call' = Call("on_press", 0)
    /\ UNCHANGED <<drawing, history, selection, clipboard, current_tool, ortho_call, mouse, disk, modified>>

\* on_press with a single-gesture drawing tool: the snapped position is kept
PressDraw(p) ==
    /\ pointer = <<>>
    /\ current_tool \in {"line", "rectangle"}
    /\ drag_data' = <<[x |-> snap_point(p)[1], y |-> snap_point(p)[2],
                       has_start |-> FALSE, start_x |-> 0, start_y |-> 0]>>
    /\ pointer' = p
    /\ last_call' = Call("on_press", 0)
    /\ UNCHANGED <<drawing, history, selection, clipboard, current_tool, ortho_call, ortho, disk, modified>>

\* the corner of the selected shape at which draw_resize_handles puts a handle
HandlePoint(s, h) ==
    LET b == get_bounds(s)
    IN  CASE h = "nw" -> <<b[1], b[2]>>
          [] h = "ne" -> <<b[3], b[2]>>
          [] h = "sw" -> <<b[1], b[4]>>
          [] h = "se" -> <<b[3], b[4]>>

\* on_press, select tool, on a resize handle of the selected shape
PressResizeHandle(h) ==
    /\ pointer = <<>>
    /\ current_tool = "select"
    /\ selected_shape # NoSel
    /\ Selected.shape_type \notin LINE_TYPES \cup {"text"}
    /\ resizing_shape' = TRUE
    /\ resize_handle' = h
    /\ pointer' = HandlePoint(Selected, h)
    /\ drag_data' = <<[x |-> pointer'[1], y |-> pointer'[2],
                       has_start |-> FALSE, start_x |-> 0, start_y |-> 0]>>
    /\ last_call' = Call("on_press", 0)
    /\ UNCHANGED <<drawing, history, selected_shape, editing_endpoint, editing_waypoint,
                   clipboard, current_tool, ortho_call, ortho, disk, modified>>

\* the point of the selected ortho line at which draw_ortho_handles puts the handle w
OrthoHandlePoint(s, w) ==
    CASE w.kind = "start" -> <<s.x1, s.y1>>
      [] w.kind = "end"   -> <<s.x2, s.y2>>
      [] w.kind = "index" -> s.waypoints[w.idx + 1]

OrthoHandlesOf(s) ==
    {EndWaypoint("start"), EndWaypoint("end")}
        \cup {IdxWaypoint(k) : k \in 0..(Len(s.waypoints) - 1)}

\* on_press, select tool, on a handle of the selected ortho line
PressOrthoHandle(w) ==
    /\ pointer = <<>>
    /\ current_tool = "select"
    /\ selected_shape # NoSel
    /\ Selected.shape_type \in {"ortho_line", "ortho_arrow"}
    /\ w \in OrthoHandlesOf(Selected)
    /\ editing_waypoint' = w
    /\ pointer' = OrthoHandlePoint(Selected, w)
    /\ drag_data' = <<[x |-> pointer'[1], y |-> pointer'[2],
                       has_start |-> FALSE, start_x |-> 0, start_y |-> 0]>>
    /\ last_call' = Call("on_press", 0)
    /\ UNCHANGED <<drawing, history, selected_shape, editing_endpoint, resizing_shape,
                   resize_handle, clipboard, current_tool, ortho_call, ortho, disk, modified>>

\* on_press finding an endpoint handle on a selected shape of any type
PressEndpointHandle_any(ep) ==
    /\ pointer = <<>>
    /\ current_tool = "select"
    /\ selected_shape # NoSel
    /\ editing_endpoint' = ep
    /\ pointer' = IF ep = "start" THEN <<Selected.x1, Selected.y1>>
                  ELSE <<Selected.x2, Selected.y2>>
    /\ drag_data' = <<[x |-> pointer'[1], y |-> pointer'[2],
                       has_start |-> FALSE, start_x |-> 0, start_y |-> 0]>>
    /\ last_call' = Call("on_press", 0)
    /\ UNCHANGED <<drawing, history, selected_shape, editing_waypoint, resizing_shape,
                   resize_handle, clipboard, current_tool, ortho_call, ortho, disk, modified>>

\* on_press, select tool, on an endpoint handle of the selected line or arrow
PressEndpointHandle(ep) ==
    /\ pointer = <<>>
    /\ current_tool = "select"
    /\ selected_shape # NoSel
    /\ Selected.shape_type \in {"line", "arrow"}
    /\ editing_endpoint' = ep
    /\ pointer' = IF ep = "start" THEN <<Selected.x1, Selected.y1>>
                  ELSE <<Selected.x2, Selected.y2>>
    /\ drag_data' = <<[x |-> pointer'[1], y |-> pointer'[2],
                       has_start |-> FALSE, start_x |-> 0, start_y |-> 0]>>
    /\ last_call' = Call("on_press", 0)
    /\ UNCHANGED <<drawing, history, selected_shape, editing_waypoint, resizing_shape,
                   resize_handle, clipboard, current_tool, ortho_call, ortho, disk, modified>>

\* on_press, select tool, no handle under the pointer: handle_selection.  i is the
\* shape whose canvas item is under the pointer (0: none, the press is then at p);
\* a shape is pressed at its first point.
PressSelect(i, p) ==
    /\ pointer = <<>>
    /\ current_tool = "select"
    /\ i \in 0..Len(shapes)
    /\ selected_shape' = i
    /\ editing_endpoint' = None
    /\ editing_waypoint' = NoWaypoint
    /\ resizing_shape' = FALSE
    /\ resize_handle' = None
    /\ IF i # 0
       THEN /\ pointer' = <<shapes[i].x1, shapes[i].y1>>
            /\ drag_data' = <<[x |-> shapes[i].x1, y |-> shapes[i].y1, has_start |-> TRUE,
                               start_x |-> shapes[i].x1, start_y |-> shapes[i].y1]>>
       ELSE /\ pointer' = p
            /\ drag_data' = <<[x |-> p[1], y |-> p[2], has_start |-> FALSE,
                               start_x |-> 0, start_y |-> 0]>>
    /\ last_call' = Call("on_press", i)
    /\ UNCHANGED <<drawing, history, clipboard, current_tool, ortho_call, ortho, disk, modified>>

-----------------------------------------------------------------------------
(* drawing_app.py: on_drag *)

\* on_drag with a drawing tool: only the preview follows the pointer
DragDraw(p) ==
    /\ pointer # <<>>
    /\ current_tool # "select"
    /\ pointer' = p
    /\ last_call' = Call("on_drag", 0)
    /\ UNCHANGED <<drawing, history, selection, clipboard, current_tool, ortho_call, ortho,
                   drag_data, disk, modified>>

\* on_drag, select tool, resizing: the corner follows the grid-snapped pointer;
\* update_connected_lines is not called
DragResize(p) ==
    /\ pointer # <<>>
    /\ current_tool = "select"
    /\ resizing_shape /\ selected_shape # NoSel
    /\ shapes' = [shapes EXCEPT ![selected_shape] =
                     Resized(@, resize_handle, snap_point(p)[1], snap_point(p)[2])]
    /\ pointer' = p
    /\ modified' = TRUE
    /\ last_call' = Call("on_drag", selected_shape)
    /\ UNCHANGED <<next_shape_id, history, selection, clipboard, current_tool, ortho_call, ortho,
                   drag_data, disk>>

\* the point an endpoint dragged to p is put at: an anchor of another shape within
\* snap_distance, else the grid point
EndpointTarget(ss, li, p) ==
    LET r == get_snap_point(ss, p[1], p[2], li)
    IN  IF r.shape # 0 THEN <<r.x, r.y>> ELSE snap_point(p)

\* on_drag, select tool, a handle of the selected ortho line held
DragOrthoPoint(p) ==
    /\ pointer # <<>>
    /\ current_tool = "select"
    /\ ~(resizing_shape /\ selected_shape # NoSel)
    /\ editing_waypoint # NoWaypoint /\ selected_shape # NoSel
    /\ shapes' = [shapes EXCEPT ![selected_shape] =
                     IF editing_waypoint.kind \in {"start", "end"}
                     THEN SetEndpoint(@, editing_waypoint.kind,
                                      EndpointTarget(shapes, selected_shape, p))
                     ELSE [@ EXCEPT !.waypoints[editing_waypoint.idx + 1] = snap_point(p)]]
    /\ pointer' = p
    /\ modified' = TRUE
    /\ last_call' = Call("on_drag", selected_shape)
    /\ UNCHANGED <<next_shape_id, history, selection, clipboard, current_tool, ortho_call, ortho,
                   drag_data, disk>>

\* on_drag, select tool, an endpoint handle of the selected line held
DragEndpoint(p) ==
    /\ pointer # <<>>
    /\ current_tool = "select"
    /\ ~(resizing_shape /\ selected_shape # NoSel)
    /\ ~(editing_waypoint # NoWaypoint /\ selected_shape # NoSel)
    /\ editing_endpoint # None /\ selected_shape # NoSel
    /\ shapes' = [shapes EXCEPT ![selected_shape] =
                     SetEndpoint(@, editing_endpoint,
                                 EndpointTarget(shapes, selected_shape, p))]
    /\ pointer' = p
    /\ last_call' = Call("on_drag", selected_shape)
    /\ UNCHANGED <<next_shape_id, history, selection, clipboard, current_tool, ortho_call, ortho,
                   drag_data, disk, modified>>

\* on_drag, select tool, the selected shape held: it moves by the pointer's step and
\* the lines connected to it are re-resolved
DragMove(p) ==
    /\ pointer # <<>>
    /\ current_tool = "select"
    /\ selected_shape # NoSel
    /\ editing_endpoint = None /\ ~resizing_shape /\ editing_waypoint = NoWaypoint
    /\ LET dx == p[1] - drag_data[1].x
           dy == p[2] - drag_data[1].y
           moved == [shapes EXCEPT ![selected_shape] = Moved(@, dx, dy)]
       IN  shapes' = update_connected_lines(moved, selected_shape)
    /\ drag_data' = <<[drag_data[1] EXCEPT !.x = p[1], !.y = p[2]]>>
    /\ pointer' = p
    /\ modified' = TRUE
    /\ last_call' = Call("on_drag", selected_shape)
    /\ UNCHANGED <<next_shape_id, history, selection, clipboard, current_tool, ortho_call, ortho, disk>>

\* on_drag, select tool, nothing selected: no branch applies
DragIdle(p) ==
    /\ pointer # <<>>
    /\ current_tool = "select"
    /\ selected_shape = NoSel
    /\ pointer' = p
    /\ last_call' = Call("on_drag", 0)
    /\ UNCHANGED <<drawing, history, selection, clipboard, current_tool, ortho_call, ortho,
                   drag_data, disk, modified>>

-----------------------------------------------------------------------------
(* drawing_app.py: on_release *)

\* every release ends the gesture
ButtonUp == pointer' = <<>> /\ drag_data' = <<>>

\* on_release, select tool, after a resize: the state is recorded
ReleaseResize ==
    /\ pointer # <<>>
    /\ current_tool = "select"
    /\ resizing_shape
    /\ resizing_shape' = FALSE
    /\ resize_handle' = None
    /\ RecordState(shapes, next_shape_id)
    /\ ButtonUp
    /\ last_call' = Call("on_release_resize", selected_shape)
    /\ UNCHANGED <<drawing, selected_shape, editing_endpoint, editing_waypoint,
                   clipboard, current_tool, ortho_call, ortho, disk>>

\* the selected line after an endpoint was dropped with (x, y) as the point that is
\* looked up: connected to the shape found there, or disconnected
Dropped(ss, li, endpoint, x, y) ==
    Reconnect(ss, ss[li], endpoint, get_snap_point(ss, x, y, li).shape)

\* on_release, select tool, after the drag of a handle of an ortho line
ReleaseOrthoPoint ==
    /\ pointer # <<>>
    /\ current_tool = "select"
    /\ ~resizing_shape
    /\ editing_waypoint # NoWaypoint
    /\ IF editing_waypoint.kind \in {"start", "end"} /\ selected_shape # NoSel
       THEN LET ex == IF editing_waypoint.kind = "start" THEN Selected.x1 ELSE Selected.x2
                ey == IF editing_waypoint.kind = "start" THEN Selected.y1 ELSE Selected.y2
            IN  shapes' = [shapes EXCEPT ![selected_shape] =
                              Dropped(shapes, selected_shape, editing_waypoint.kind, ex, ey)]
       ELSE UNCHANGED shapes
    /\ editing_waypoint' = NoWaypoint
    /\ RecordState(shapes', next_shape_id)
    /\ ButtonUp
    /\ last_call' = Call("on_release_waypoint", selected_shape)
    /\ UNCHANGED <<next_shape_id, selected_shape, editing_endpoint, resizing_shape,
                   resize_handle, clipboard, current_tool, ortho_call, ortho, disk>>

\* on_release, select tool, after the drag of an endpoint of a line or arrow: the
\* release position decides the connection
ReleaseEndpoint ==
    /\ pointer # <<>>
    /\ current_tool = "select"
    /\ ~resizing_shape
    /\ editing_waypoint = NoWaypoint
    /\ editing_endpoint # None /\ selected_shape # NoSel
    /\ shapes' = [shapes EXCEPT ![selected_shape] =
                     Dropped(shapes, selected_shape, editing_endpoint, pointer[1], pointer[2])]
    /\ editing_endpoint' = None
    /\ RecordState(shapes', next_shape_id)
    /\ ButtonUp
    /\ last_call' = Call("on_release_endpoint", selected_shape)
    /\ UNCHANGED <<next_shape_id, selected_shape, editing_waypoint, resizing_shape,
                   resize_handle, clipboard, current_tool, ortho_call, ortho, disk>>

\* the shapes after the grid adjustment of a moved shape on release: the shape is
\* shifted so that its first point is on the grid, and the lines connected to it
\* are re-resolved, when the shift exceeds 0.1
GridAdjusted(ss, i) ==
    LET g  == snap_point(<<ss[i].x1, ss[i].y1>>)
        dx == g[1] - ss[i].x1
        dy == g[2] - ss[i].y1
    IN  IF dx # 0 \/ dy # 0
        THEN update_connected_lines([ss EXCEPT ![i] = Moved(@, dx, dy)], i)
        ELSE ss

\* on_release, select tool, a shape selected and no handle held: a move of more
\* than 2 pixels is adjusted to the grid and recorded
ReleaseMove ==
    /\ pointer # <<>>
    /\ current_tool = "select"
    /\ ~resizing_shape
    /\ editing_waypoint = NoWaypoint
    /\ ~(editing_endpoint # None /\ selected_shape # NoSel)
    /\ selected_shape # NoSel
    /\ LET start_x == IF drag_data # <<>> /\ drag_data[1].has_start
                      THEN drag_data[1].start_x ELSE pointer[1]
           start_y == IF drag_data # <<>> /\ drag_data[1].has_start
                      THEN drag_data[1].start_y ELSE pointer[2]
       IN  IF Abs(pointer[1] - start_x) > 2 \/ Abs(pointer[2] - start_y) > 2
           THEN /\ shapes' = GridAdjusted(shapes, selected_shape)
                /\ RecordState(shapes', next_shape_id)
                /\ last_call' = Call("on_release_move", selected_shape)
           ELSE /\ UNCHANGED <<shapes, history, modified>>
                /\ last_call' = Call("on_release", 0)
    /\ ButtonUp
    /\ UNCHANGED <<next_shape_id, selection, clipboard, current_tool, ortho_call, ortho, disk>>

\* on_release, select tool, nothing selected and no handle held
ReleaseIdle ==
    /\ pointer # <<>>
    /\ current_tool = "select"
    /\ ~resizing_shape
    /\ editing_waypoint = NoWaypoint
    /\ selected_shape = NoSel
    /\ ButtonUp
    /\ last_call' = Call("on_release", 0)
    /\ UNCHANGED <<drawing, history, selection, clipboard, current_tool, ortho_call, ortho, disk, modified>>

\* DrawingApp.create_shape for the tools line and rectangle: <<>> for None
create_shape(tool, x1, y1, x2, y2) ==
    IF Abs(x2 - x1) < 3 /\ Abs(y2 - y1) < 3 THEN <<>>
    ELSE <<NewShape(tool, x1, y1, x2, y2)>>

\* on_release with a single-gesture drawing tool: the shape from the press to the
\* snapped release position is added and the state recorded
ReleaseDraw ==
    /\ pointer # <<>>
    /\ current_tool \in {"line", "rectangle"}
    /\ LET q == snap_point(pointer)
           made == create_shape(current_tool, drag_data[1].x, drag_data[1].y, q[1], q[2])
       IN  IF made # <<>>
           THEN /\ CanAdd
                /\ LET d == add_shape([shapes |-> shapes, next_id |-> next_shape_id], made[1])
                   IN  /\ shapes' = d.shapes
                       /\ next_shape_id' = d.next_id
                       /\ RecordState(d.shapes, d.next_id)
                /\ last_call' = Call("add_shape", 0)
           ELSE /\ UNCHANGED <<drawing, history, modified>>
                /\ last_call' = Call("on_release", 0)
    /\ ButtonUp
    /\ UNCHANGED <<selection, clipboard, current_tool, ortho_call, ortho, disk>>

-----------------------------------------------------------------------------
(* drawing_app.py: ortho line drawing *)

\* DrawingApp._finalize_ortho_line(end_x, end_y): <<>> when the line is too small
finalize_ortho_line(tool, start, waypoints, ex, ey) ==
    IF Abs(ex - start[1]) < 3 /\ Abs(ey - start[2]) < 3 /\ waypoints = <<>> THEN <<>>
    ELSE <<[NewShape(tool, start[1], start[2], ex, ey) EXCEPT !.waypoints = waypoints]>>

\* the common end of on_right_click and _finish_ortho_if_active
FinalizeOrtho(made) ==
    /\ cancel_ortho_drawing
    /\ IF made # <<>>
       THEN /\ CanAdd
            /\ LET d == add_shape([shapes |-> shapes, next_id |-> next_shape_id], made[1])
               IN  /\ shapes' = d.shapes
                   /\ next_shape_id' = d.next_id
                   /\ RecordState(d.shapes, d.next_id)
            /\ last_call' = Call("add_shape", 0)
       ELSE /\ UNCHANGED <<drawing, history, modified>>
            /\ last_call' = Call("finalize_ortho_line", 0)
    /\ UNCHANGED <<selection, clipboard, current_tool, ortho_call, mouse, disk>>

\* DrawingApp.on_right_click at p with an ortho line in progress
RightClick(p) ==
    /\ pointer = <<>>
    /\ ortho_in_progress
    /\ FinalizeOrtho(finalize_ortho_line(current_tool, ortho_start[1], ortho_waypoints,
                                         snap_point(p)[1], snap_point(p)[2]))

\* DrawingApp._finish_ortho_if_active (Enter): the last waypoint becomes the end
\* point; without a waypoint the drawing is cancelled
FinishOrtho ==
    /\ pointer = <<>>
    /\ ortho_in_progress
    /\ IF ortho_waypoints # <<>>
       THEN FinalizeOrtho(finalize_ortho_line(current_tool, ortho_start[1],
                                              Front(ortho_waypoints),
                                              Last(ortho_waypoints)[1],
                                              Last(ortho_waypoints)[2]))
       ELSE /\ cancel_ortho_drawing
            /\ last_call' = Call("cancel_ortho_drawing", 0)
            /\ UNCHANGED <<drawing, history, selection, clipboard, current_tool, ortho_call,
                           mouse, disk, modified>>

\* DrawingApp.deselect_all (Escape)
DeselectAll ==
    /\ pointer = <<>>
    /\ IF ortho_in_progress
       THEN cancel_ortho_drawing /\ UNCHANGED selection
       ELSE clear_selection /\ UNCHANGED ortho
    /\ last_call' = Call("deselect_all", 0)
    /\ UNCHANGED <<drawing, history, clipboard, current_tool, ortho_call, mouse, disk, modified>>

-----------------------------------------------------------------------------
(* canvas_manager.py: the operations of the Edit menu *)

\* undo without the early return on an empty stack, up to the pop that fails
UndoUnguarded ==
    /\ pointer = <<>>
    /\ undo_stack = <<>>
    /\ redo_stack' = Append(redo_stack, Snapshot(shapes, next_shape_id))
    /\ last_call' = Call("undo", 0)
    /\ UNCHANGED <<drawing, undo_stack, budget, recorded, selection, clipboard,
                   current_tool, ortho_call, ortho, mouse, disk, modified>>

\* CanvasManager.undo
Undo ==
    /\ pointer = <<>>
    /\ IF undo_stack = <<>>
       THEN UNCHANGED <<drawing, history, selection>>
       ELSE /\ redo_stack' = Append(redo_stack, Snapshot(shapes, next_shape_id))
            /\ LET d == restore_state(Last(undo_stack))
               IN  shapes' = d.shapes /\ next_shape_id' = d.next_id
            /\ undo_stack' = Front(undo_stack)
            /\ recorded' = <<>>
            /\ UNCHANGED budget
            /\ clear_selection
    /\ last_call' = Call("undo", 0)
    /\ UNCHANGED <<clipboard, current_tool, ortho_call, ortho, mouse, disk, modified>>

\* redo that leaves the snapshot it restores on the redo stack
Redo_keeping ==
    /\ pointer = <<>>
    /\ IF redo_stack = <<>>
       THEN UNCHANGED <<drawing, history, selection>>
       ELSE /\ undo_stack' = Append(undo_stack, Snapshot(shapes, next_shape_id))
            /\ LET d == restore_state(Last(redo_stack))
               IN  shapes' = d.shapes /\ next_shape_id' = d.next_id
            /\ recorded' = <<>>
            /\ UNCHANGED <<budget, redo_stack>>
            /\ clear_selection
    /\ last_call' = Call("redo", 0)
    /\ UNCHANGED <<clipboard, current_tool, ortho_call, ortho, mouse, disk, modified>>

\* CanvasManager.redo
Redo ==
    /\ pointer = <<>>
    /\ IF redo_stack = <<>>
       THEN UNCHANGED <<drawing, history, selection>>
       ELSE /\ undo_stack' = Append(undo_stack, Snapshot(shapes, next_shape_id))
            /\ LET d == restore_state(Last(redo_stack))
               IN  shapes' = d.shapes /\ next_shape_id' = d.next_id
            /\ redo_stack' = Front(redo_stack)
            /\ recorded' = <<>>
            /\ UNCHANGED budget
            /\ clear_selection
    /\ last_call' = Call("redo", 0)
    /\ UNCHANGED <<clipboard, current_tool, ortho_call, ortho, mouse, disk, modified>>

\* CanvasManager.copy_shape
CopyShape ==
    /\ pointer = <<>>
    /\ selected_shape # NoSel
    /\ clipboard' = <<ShapeCopy(Selected)>>
    /\ last_call' = Call("copy_shape", selected_shape)
    /\ UNCHANGED <<drawing, history, selection, current_tool, ortho_call, ortho, mouse, disk, modified>>

\* the shape paste_shape hands to add_shape
Pasted(clip) == [ShapeCopy(clip) EXCEPT !.shape_id = 0]

\* CanvasManager.paste_shape
PasteShape ==
    /\ pointer = <<>>
    /\ clipboard # <<>>
    /\ CanAdd
    /\ LET d == add_shape([shapes |-> shapes, next_id |-> next_shape_id], Pasted(clipboard[1]))
       IN  /\ shapes' = d.shapes
           /\ next_shape_id' = d.next_id
           /\ RecordState(d.shapes, d.next_id)
    /\ last_call' = Call("paste_shape", 0)
    /\ UNCHANGED <<selection, clipboard, current_tool, ortho_call, ortho, mouse, disk>>

\* delete_shape recording the state after the shape has been removed
DeleteSelected_late ==
    /\ pointer = <<>>
    /\ selected_shape # NoSel
    /\ IF IsMember(shapes, Selected)
       THEN /\ shapes' = delete_shape(shapes, selected_shape)
            /\ RecordState(shapes', next_shape_id)
       ELSE UNCHANGED <<shapes, history, modified>>
    /\ clear_selection
    /\ last_call' = Call("delete_selected", Selected.shape_id)
    /\ UNCHANGED <<next_shape_id, clipboard, current_tool, ortho_call, ortho, mouse, disk>>

\* DrawingApp.delete_selected: CanvasManager.delete_shape(selected_shape).  The
\* state is recorded before the shape is removed.
DeleteSelected ==
    /\ pointer = <<>>
    /\ selected_shape # NoSel
    /\ IF IsMember(shapes, Selected)
       THEN /\ RecordState(shapes, next_shape_id)
            /\ shapes' = delete_shape(shapes, selected_shape)
       ELSE UNCHANGED <<shapes, history, modified>>
    /\ clear_selection
    /\ last_call' = Call("delete_selected", Selected.shape_id)
    /\ UNCHANGED <<next_shape_id, clipboard, current_tool, ortho_call, ortho, mouse, disk>>

\* CanvasManager.delete_shape called with a Shape object that is not one of the
\* live objects (the clipboard's).  Past the membership test the state is
\* recorded and the connections to the object's id are dropped before
\* list.remove looks for the object.
DeleteDetached ==
    /\ pointer = <<>>
    /\ clipboard # <<>>
    /\ IF IsMember(shapes, clipboard[1])
       THEN /\ RecordState(shapes, next_shape_id)
            /\ LET pruned == [k \in 1..Len(shapes) |->
                                DropTarget(shapes[k], clipboard[1].shape_id)]
               IN  shapes' = SelectSeq(pruned, LAMBDA s : s # clipboard[1])
            /\ clear_selection
       ELSE UNCHANGED <<shapes, history, modified, selection>>
    /\ last_call' = Call("delete_detached", clipboard[1].shape_id)
    /\ UNCHANGED <<next_shape_id, clipboard, current_tool, ortho_call, ortho, mouse, disk>>

\* the routing after a flip
Flipped(routing) == IF routing # "v_first" THEN "v_first" ELSE "h_first"

\* DrawingApp._flip_ortho_routing (R): CanvasManager.flip_routing(selected_shape)
FlipRouting ==
    /\ pointer = <<>>
    /\ selected_shape # NoSel
    /\ Selected.shape_type \in {"ortho_line", "ortho_arrow"}
    /\ shapes' = [shapes EXCEPT ![selected_shape].routing = Flipped(@)]
    /\ RecordState(shapes', next_shape_id)
    /\ last_call' = Call("flip_routing", selected_shape)
    /\ UNCHANGED <<next_shape_id, selection, clipboard, current_tool, ortho_call, ortho, mouse, disk>>

-----------------------------------------------------------------------------
(* file_manager.py *)

Answers == {"yes", "no", "cancel"}

\* the records save_to_file writes: the shapes, not next_shape_id
Saved(ss) == [i \in 1..Len(ss) |-> ToDict(ss[i])]

\* FileManager.check_unsaved with the user's answer to the dialog: whether the
\* caller goes on, and the file afterwards (the answer yes saves first)
check_unsaved(answer) ==
    IF ~modified THEN [go |-> TRUE, disk |-> disk]
    ELSE IF answer = "cancel" THEN [go |-> FALSE, disk |-> disk]
    ELSE IF answer = "yes" THEN [go |-> TRUE, disk |-> <<Saved(shapes)>>]
    ELSE [go |-> TRUE, disk |-> disk]

\* CanvasManager.clear_all(record_undo=True), the part on the history
ClearAllRecords ==
    IF shapes # <<>>
    THEN Recorded(shapes, next_shape_id)
    ELSE UNCHANGED history

\* FileManager.new_drawing
NewDrawing(answer) ==
    /\ pointer = <<>>
    /\ modified \/ answer = "no"
    /\ LET c == check_unsaved(answer)
       IN  /\ disk' = c.disk
           /\ IF c.go
              THEN /\ ClearAllRecords
                   /\ shapes' = Cleared.shapes
                   /\ next_shape_id' = Cleared.next_id
                   /\ clear_selection
                   /\ modified' = FALSE
              ELSE UNCHANGED <<drawing, history, selection, modified>>
    /\ last_call' = Call("new_drawing", 0)
    /\ UNCHANGED <<clipboard, current_tool, ortho_call, ortho, mouse>>

\* FileManager.open_drawing of the file on disk
OpenDrawing(answer) ==
    /\ pointer = <<>>
    /\ modified \/ answer = "no"
    /\ LET c == check_unsaved(answer)
       IN  /\ c.disk # <<>>
           /\ disk' = c.disk
           /\ IF c.go
              THEN /\ ClearAllRecords
                   /\ LET d == LoadShapes(c.disk[1])
                      IN  shapes' = d.shapes /\ next_shape_id' = d.next_id
                   /\ clear_selection
                   /\ modified' = IF LoadFails(c.disk[1])
                                  THEN modified /\ answer # "yes"
                                  ELSE FALSE
              ELSE UNCHANGED <<drawing, history, selection, modified>>
           /\ last_call' = IF c.go /\ LoadFails(c.disk[1])
                           THEN Call("showerror", 0)
                           ELSE Call("open_drawing", 0)
    /\ UNCHANGED <<clipboard, current_tool, ortho_call, ortho, mouse>>

\* FileManager.save_drawing
SaveDrawing ==
    /\ pointer = <<>>
    /\ disk' = <<Saved(shapes)>>
    /\ modified' = FALSE
    /\ last_call' = Call("save_drawing", 0)
    /\ UNCHANGED <<drawing, history, selection, clipboard, current_tool, ortho_call, ortho, mouse>>

-----------------------------------------------------------------------------
(* The editor.  Keyboard and menu commands arrive between gestures (the button
   is up). *)

\* drawing with the single-gesture tools
Draw ==
    \/ \E tool \in {"select", "line", "rectangle"} : SelectTool(tool)
    \/ PressDraw(DrawStart(current_tool))
    \/ \E p \in Pts : DragDraw(p)
    \/ ReleaseDraw

\* selecting with the select tool
Pick ==
    \/ \E i \in 0..MaxShapes : PressSelect(i, Away)
    \/ \E p \in Pts : DragIdle(p)
    \/ ReleaseMove
    \/ ReleaseIdle

\* moving an endpoint of the selected line
Connect ==
    \/ \E ep \in {"start", "end"} : PressEndpointHandle(ep)
    \/ \E p \in Pts : DragEndpoint(p)
    \/ ReleaseEndpoint

\* resizing and moving the selected shape
Reshape ==
    \/ \E h \in Handles : PressResizeHandle(h)
    \/ \E p \in Pts : DragResize(p)
    \/ \E p \in Pts : DragMove(p)
    \/ ReleaseResize

Next ==
    \/ Draw
    \/ Pick
    \/ Connect
    \/ Reshape
    \/ Undo
    \/ Redo

Spec == Init /\ [][Next]_vars

\* the record of a rectangle in a drawing file
Box(id, x1, y1, x2, y2) ==
    ToDict([NewShape("rectangle", x1, y1, x2, y2) EXCEPT !.shape_id = id])

\* the record of a line in a drawing file, with its connections
Link(id, x1, y1, x2, y2, conns) ==
    ToDict([NewShape("line", x1, y1, x2, y2) EXCEPT !.shape_id = id, !.connections = conns])

\* drawing files written by earlier sessions: two rectangles joined by a line, and
\* a line that starts on a rectangle
Files ==
    { << Box(1, 0, 0, 40, 20), Box(2, 80, 0, 120, 20),
         Link(3, 40, 10, 80, 10, << [target_id |-> 1, endpoint |-> "start"],
                                    [target_id |-> 2, endpoint |-> "end"] >>) >>,
      << Link(1, 20, 0, 60, 40, << [target_id |-> 2, endpoint |-> "start"] >>),
         Box(2, 0, 0, 40, 20) >> }

\* a session that deletes: a drawing is opened, its shapes are selected, copied
\* to the clipboard and deleted
NextDelete ==
    \/ \E answer \in Answers : OpenDrawing(answer)
    \/ \E i \in 0..Len(shapes) : PressSelect(i, Away)
    \/ \E p \in Pts : DragIdle(p)
    \/ ReleaseMove
    \/ ReleaseIdle
    \/ DeleteSelected
    \/ CopyShape
    \/ DeleteDetached

SpecDelete == Start(MaxRecords, {<<f>> : f \in Files}) /\ [][NextDelete]_vars

\* a session with the File menu: shapes are drawn, pasted and deleted, the
\* drawing is saved, opened again and started anew
File ==
    \/ \E answer \in Answers : NewDrawing(answer)
    \/ \E answer \in Answers : OpenDrawing(answer)
    \/ SaveDrawing

NextFile ==
    \/ \E tool \in {"select", "rectangle"} : SelectTool(tool)
    \/ PressDraw(DrawStart(current_tool))
    \/ \E p \in Pts : DragDraw(p)
    \/ ReleaseDraw
    \/ \E i \in 1..MaxShapes : PressSelect(i, Away)
    \/ ReleaseMove
    \/ DeleteSelected
    \/ CopyShape
    \/ PasteShape
    \/ Undo
    \/ Redo
    \/ File

SpecFile == Start(MaxRecords, {<<>>}) /\ [][NextFile]_vars

\* a long session on one ortho line, whose routing is flipped over and over
NextLong ==
    \/ \E tool \in {"select", "ortho_line"} : SelectTool(tool)
    \/ PressOrtho(DrawStart(current_tool))
    \/ \E p \in Pts : shapes = <<>> /\ RightClick(p)
    \/ \E i \in 0..MaxShapes : PressSelect(i, Away)
    \/ ReleaseMove
    \/ ReleaseIdle
    \/ FlipRouting

SpecLong == Start(LongSession, {<<>>}) /\ [][NextLong]_vars

\* the record of an ellipse in a drawing file
Oval(id, x1, y1, x2, y2) ==
    ToDict([NewShape("ellipse", x1, y1, x2, y2) EXCEPT !.shape_id = id])

\* the record of a triangle in a drawing file
Tri(id, x1, y1, x2, y2) ==
    ToDict([NewShape("triangle", x1, y1, x2, y2) EXCEPT !.shape_id = id])

\* drawing files for the sessions that snap: two rectangles that touch in a corner
\* with a line that starts on the second; a line that starts on a rectangle
\* drawn after it; an ellipse and a triangle with a line whose start names a
\* shape that the file does not hold
SnapFiles ==
    { << Box(1, 0, 0, 40, 20), Box(2, 40, 20, 80, 40),
         Link(3, 40, 30, 100, 60, << [target_id |-> 2, endpoint |-> "start"] >>) >>,
      << Link(1, 20, 0, 60, 40, << [target_id |-> 2, endpoint |-> "start"] >>),
         Box(2, 0, 0, 40, 20) >>,
      << Oval(1, 0, 0, 40, 20), Tri(2, 60, 0, 100, 40),
         Link(3, 44, 10, 80, 60, << [target_id |-> 9, endpoint |-> "start"] >>) >> }

\* pointer positions of endpoint drags in these sessions
SnapPts == { <<95, 40>>, <<94, 40>>, <<40, 25>> }

\* a session that snaps: a drawing is opened and the endpoints of its lines are
\* dragged
NextSnap ==
    \/ OpenDrawing("no")
    \/ \E i \in 1..Len(shapes) : PressSelect(i, Away)
    \/ ReleaseMove
    \/ \E ep \in {"start", "end"} : PressEndpointHandle(ep)
    \/ \E p \in SnapPts : DragEndpoint(p)
    \/ ReleaseEndpoint

SpecSnap == Start(MaxRecords, {<<f>> : f \in SnapFiles}) /\ [][NextSnap]_vars

\* a session that rearranges: a drawing is opened, its shapes are moved and resized
NextMove ==
    \/ OpenDrawing("no")
    \/ \E i \in 1..Len(shapes) : PressSelect(i, Away)
    \/ \E p \in Pts : DragMove(p)
    \/ ReleaseMove
    \/ \E h \in Handles : PressResizeHandle(h)
    \/ \E p \in Pts : DragResize(p)
    \/ ReleaseResize

SpecMove == Start(MaxRecords, {<<f>> : f \in SnapFiles}) /\ [][NextMove]_vars

\* the record of an ortho line in a drawing file, with its connections
Elbow(id, x1, y1, x2, y2, conns) ==
    ToDict([NewShape("ortho_line", x1, y1, x2, y2) EXCEPT
               !.shape_id = id, !.connections = conns])

\* drawing files of earlier sessions: a line that starts on the second of two
\* rectangles, and an ortho line that joins two rectangles
DropFiles ==
    { << Box(1, 0, 0, 40, 20), Box(2, 40, 20, 80, 40),
         Link(3, 40, 30, 100, 60, << [target_id |-> 2, endpoint |-> "start"] >>) >>,
      << Box(1, 0, 0, 40, 20), Box(2, 60, 40, 100, 60),
         Elbow(3, 40, 10, 60, 50, << [target_id |-> 1, endpoint |-> "start"],
                                     [target_id |-> 2, endpoint |-> "end"] >>) >> }

\* where endpoints are dropped: near a corner of either rectangle, and far from both
DropPts == { <<94, 40>>, <<40, 25>>, <<200, 200>> }

\* a session that reconnects: a drawing is opened and the endpoints of its line
\* or ortho line are dragged and dropped
NextDrop ==
    \/ OpenDrawing("no")
    \/ \E i \in 1..Len(shapes) : shapes[i].shape_type \in LINE_TYPES /\ PressSelect(i, Away)
    \/ ReleaseMove
    \/ \E ep \in {"start", "end"} : PressEndpointHandle(ep)
    \/ \E p \in DropPts : DragEndpoint(p)
    \/ ReleaseEndpoint
    \/ \E ep \in {"start", "end"} : PressOrthoHandle(EndWaypoint(ep))
    \/ \E p \in DropPts : DragOrthoPoint(p)
    \/ ReleaseOrthoPoint

SpecDrop == Start(MaxRecords, {<<f>> : f \in DropFiles}) /\ [][NextDrop]_vars

\* the record d as a file holds it when the fields fs were never written
Without(d, fs) == [f \in DOMAIN d \ fs |-> d[f]]

\* the fields files of other origin may lack in a record: optional ones, a
\* coordinate, the shape type
Lacks == { {}, {"routing"}, {"waypoints"}, {"routing", "waypoints"}, {"x2"},
           {"shape_type"} }

\* drawing files of other origin: a rectangle and a vertical-first ortho line
\* through one waypoint, each record lacking one of the sets of fields
LoadFiles ==
    { << Without(Box(1, 0, 0, 40, 20), a),
         Without([Elbow(2, 20, 40, 80, 80, <<>>) EXCEPT
                     !.routing = "v_first", !.waypoints = << <<60, 40>> >>], b) >> :
        a \in Lacks, b \in Lacks }

\* a session that loads: a drawing is opened, its shapes are selected and the
\* routing of its ortho line is flipped
NextLoad ==
    \/ OpenDrawing("no")
    \/ \E i \in 1..Len(shapes) : PressSelect(i, Away)
    \/ ReleaseMove
    \/ FlipRouting

SpecLoad == Start(MaxRecords, {<<f>> : f \in LoadFiles}) /\ [][NextLoad]_vars

\* a session that deletes and takes back: a drawing is opened, a shape is
\* selected, perhaps copied and pasted, deleted, and the steps are undone and redone
NextUndelete ==
    \/ OpenDrawing("no")
    \/ \E i \in 1..Len(shapes) : PressSelect(i, Away)
    \/ ReleaseMove
    \/ CopyShape
    \/ PasteShape
    \/ DeleteSelected
    \/ Undo
    \/ Redo

SpecUndelete == Start(MaxRecords, {<<f>> : f \in Files}) /\ [][NextUndelete]_vars

\* a long session with undo and redo: once the history has filled up it is
\* walked back and forth, with one more recording operation in between
NextLongUndo ==
    \/ NextLong
    \/ budget <= 1 /\ undo_stack # <<>> /\ Undo
    \/ budget <= 1 /\ redo_stack # <<>> /\ Redo

SpecLongUndo == Start(LongSession, {<<>>}) /\ [][NextLongUndo]_vars

\* the recording operations of a session that connects and deletes
ConnectSession == 4

\* a session without any file: a rectangle and then lines are drawn, line ends
\* dropped on the rectangle, shapes moved, resized, copied, pasted and deleted, the
\* drawing cleared, steps undone and redone
NextConnect ==
    \/ \E tool \in {"select", "line", "rectangle"} : SelectTool(tool)
    \/ (current_tool = "rectangle" <=> shapes = <<>>) /\ PressDraw(DrawStart(current_tool))
    \/ \E p \in Pts : DragDraw(p)
    \/ ReleaseDraw
    \/ \E i \in 1..Len(shapes) : PressSelect(i, Away)
    \/ \E p \in Pts : DragMove(p)
    \/ ReleaseMove
    \/ PressResizeHandle("se")
    \/ \E p \in Pts : DragResize(p)
    \/ ReleaseResize
    \/ PressEndpointHandle("end")
    \/ \E p \in Pts : DragEndpoint(p)
    \/ ReleaseEndpoint
    \/ CopyShape
    \/ PasteShape
    \/ DeleteSelected
    \/ NewDrawing("no")
    \/ Undo
    \/ Redo

SpecConnect == Start(ConnectSession, {<<>>}) /\ [][NextConnect]_vars

\* the points of the lists handed to ortho_path directly
PathPts == { <<0, 0>>, <<10, 0>>, <<0, 10>>, <<10, 10>> }

\* the calls made: every list of at most MaxPoints points, either routing
PathCalls ==
    { [points |-> ps, routing |-> r, returned |-> <<>>] :
        ps \in UNION { [1..m -> PathPts] : m \in 0..MaxPoints },
        r \in {"h_first", "v_first"} }

\* CanvasManager.ortho_path called directly: it returns
CallOrthoPath ==
    /\ ortho_call.returned = <<>>
    /\ ortho_call' = [ortho_call EXCEPT
                          !.returned = <<ortho_path(ortho_call.points, ortho_call.routing)>>]
    /\ last_call' = Call("ortho_path", 0)
    /\ UNCHANGED <<drawing, history, selection, clipboard, current_tool, ortho, mouse,
                   disk, modified>>

NextPath == CallOrthoPath

SpecPath == (Idle(MaxRecords, {<<>>}) /\ ortho_call \in PathCalls) /\ [][NextPath]_vars

\* the points clicked while routing an ortho line
RoutePts == { <<20, 0>>, <<60, 0>>, <<60, 20>>, <<20, 20>> }

\* routing: one ortho line is drawn through clicked points, finished by a right
\* click or Enter, selected and flipped
NextRoute ==
    \/ \E tool \in {"select", "ortho_line"} : SelectTool(tool)
    \/ \E p \in RoutePts : PressOrtho(p)
    \/ \E p \in RoutePts : shapes = <<>> /\ RightClick(p)
    \/ shapes = <<>> /\ FinishOrtho
    \/ \E i \in 0..1 : PressSelect(i, Away)
    \/ ReleaseMove
    \/ ReleaseIdle
    \/ FlipRouting

SpecRoute == Start(MaxRecords, {<<>>}) /\ [][NextRoute]_vars

\* a session in which ortho lines are begun after a rectangle has been drawn,
\* and finished or cancelled by Escape, Enter or the choice of a tool
NextCancel ==
    \/ \E tool \in {"select", "rectangle", "ortho_line"} : SelectTool(tool)
    \/ current_tool = "rectangle" /\ shapes = <<>> /\ PressDraw(DrawStart(current_tool))
    \/ \E p \in Pts : DragDraw(p)
    \/ ReleaseDraw
    \/ \E p \in {DrawStart(current_tool)} \cup Pts : PressOrtho(p)
    \/ \E p \in Pts : RightClick(p)
    \/ FinishOrtho
    \/ DeselectAll
    \/ Undo
    \/ Redo

SpecCancel == Start(MaxRecords, {<<>>}) /\ [][NextCancel]_vars

-----------------------------------------------------------------------------
(* Undo and redo *)

\* the operations that call record_state
Recording ==
    {"add_shape", "paste_shape", "on_release_move", "on_release_resize",
     "on_release_endpoint", "on_release_waypoint", "flip_routing", "delete_selected"}

\* C1: an undo with a snapshot S on top of the undo stack leaves the shape
\* sequence (order, every field, the endpoint coordinates of connected lines
\* included) and next_shape_id exactly as S recorded them.
C1_UndoRestoresSnapshot ==
    [][(last_call'.op = "undo" /\ undo_stack # <<>>)
          => Snapshot(shapes', next_shape_id') = Last(undo_stack)]_vars

\* C2: a redo that immediately follows an undo leaves the shape sequence and
\* next_shape_id exactly as they were just before that undo.
C2_RedoRestoresUndone ==
    [][(last_call.op = "undo" /\ last_call.undo_len > 0 /\ last_call'.op = "redo")
          => Snapshot(shapes', next_shape_id') = Last(redo_stack)]_vars

\* C3: the snapshot that an insert pushes onto the undo stack is the drawing
\* from before the insert, so that one undo right after it returns there.
C3_InsertRecordsStateBefore ==
    [][last_call'.op = "add_shape"
          => Last(undo_stack') = Snapshot(shapes, next_shape_id)]_vars

\* C5: every record_state() leaves the redo stack empty, so that no redo can bring
\* back what was undone before the recorded action.
C5_RecordEmptiesRedo ==
    [][/\ budget' < budget => redo_stack' = <<>>
       /\ (last_call.op \in Recording /\ last_call'.op = "redo")
             => UNCHANGED <<shapes, next_shape_id, undo_stack, redo_stack>>]_vars

\* a recorded action has followed an undo and the redo stack is empty
C5_RecordedAfterUndo ==
    /\ last_call.op \in Recording
    /\ last_call.redo_len > 0
    /\ redo_stack = <<>>

\* C6: undo with an empty undo stack and redo with an empty redo stack change
\* neither the shape sequence, nor next_shape_id, nor either stack.
C6_EmptyStackNoOp ==
    [][(\/ last_call'.op = "undo" /\ undo_stack = <<>>
        \/ last_call'.op = "redo" /\ redo_stack = <<>>)
          => UNCHANGED <<shapes, next_shape_id, undo_stack, redo_stack>>]_vars

\* undo was called on an empty undo stack with shapes on the canvas
C6_UndoOnEmptyStack ==
    /\ last_call.op = "undo"
    /\ last_call.undo_len = 0
    /\ shapes # <<>>

-----------------------------------------------------------------------------
(* The history bound *)

\* C4: the undo stack never holds more than max_undo snapshots, and once max_undo
\* or more snapshots have been recorded in a row it holds exactly the max_undo
\* most recent of them, in the order of recording.
C4_HistoryBound ==
    /\ Len(undo_stack) <= max_undo
    /\ Len(recorded) >= max_undo
          => undo_stack = SubSeq(recorded, Len(recorded) - max_undo + 1, Len(recorded))

\* more than max_undo snapshots were recorded in a row, differing from one to the
\* next, and the stack is full
C4_OldestEvicted ==
    /\ Len(recorded) > max_undo
    /\ Len(undo_stack) = max_undo
    /\ recorded[1] # recorded[2]
    /\ undo_stack[1] # undo_stack[2]

-----------------------------------------------------------------------------
(* Deleting *)

\* C7: deleting the selected shape B leaves the other shapes in their order, each
\* with every field but connections unchanged and with its connections reduced
\* to exactly those whose target_id is not the id of B.
C7_DeletePrunesTarget ==
    [][last_call'.op = "delete_selected" =>
          /\ Len(shapes') = Len(shapes) - 1
          /\ \A k \in 1..Len(shapes') :
                LET old == shapes[IF k < selected_shape THEN k ELSE k + 1]
                IN  /\ \A f \in ShapeFields \ {"connections"} : shapes'[k][f] = old[f]
                    /\ shapes'[k].connections =
                          SelectSeq(old.connections,
                                    LAMBDA c : c.target_id # Selected.shape_id)]_vars

\* a shape was deleted that a line was connected to, and the line keeps its
\* connection to another shape
C7_TargetDeleted ==
    /\ last_call.op = "delete_selected"
    /\ undo_stack # <<>>
    /\ \E k \in 1..Len(shapes), j \in 1..Len(Last(undo_stack).shapes) :
          LET new == shapes[k]
              old == Last(undo_stack).shapes[j]
          IN  /\ old.shape_id = new.shape_id
              /\ Len(old.connections) = 2
              /\ \E c \in {old.connections[1], old.connections[2]} :
                    c.target_id = last_call.arg
              /\ Len(new.connections) = 1
              /\ new.connections[1].target_id # last_call.arg

\* C8: delete_shape of a shape object that is not in the drawing changes neither
\* the shape sequence and its connections, nor next_shape_id, nor either stack.
C8_DeleteDetachedNoOp ==
    [][last_call'.op = "delete_detached"
          => UNCHANGED <<shapes, next_shape_id, undo_stack, redo_stack>>]_vars

\* delete_shape was called with the clipboard's copy of a live shape that a line
\* is connected to
C8_DetachedDeleted ==
    /\ last_call.op = "delete_detached"
    /\ \E i, j \in 1..Len(shapes) :
          /\ shapes[i].shape_id = clipboard[1].shape_id
          /\ \E n \in 1..Len(shapes[j].connections) :
                shapes[j].connections[n].target_id = clipboard[1].shape_id

-----------------------------------------------------------------------------
(* Shape ids *)

\* C9: all live shapes have pairwise distinct positive ids.
C9_DistinctPositiveIds ==
    \A i, j \in 1..Len(shapes) :
        /\ shapes[i].shape_id > 0
        /\ i # j => shapes[i].shape_id # shapes[j].shape_id

\* C10: the id counter never decreases within a session.
C10_CounterNeverDecreases ==
    [][next_shape_id' >= next_shape_id]_vars

\* the ids of a sequence of shapes or shape records, in order
IdsOf(ss) == [k \in 1..Len(ss) |-> ss[k].shape_id]

\* C11: add_shape of a shape without id gives it next_shape_id and advances the
\* counter by one; add_shape of a shape with an id (the records of an opened
\* file) keeps id and counter; either way the shape is appended behind the
\* shapes already there, which keep their order and contents.
C11_AddShapeAssignsId ==
    [][/\ last_call'.op \in {"add_shape", "paste_shape"}
             => /\ Len(shapes') = Len(shapes) + 1
                /\ SubSeq(shapes', 1, Len(shapes)) = shapes
                /\ Last(shapes').shape_id = next_shape_id
                /\ next_shape_id' = next_shape_id + 1
       /\ (last_call'.op = "open_drawing" /\ ~modified')
             => /\ IdsOf(shapes') = IdsOf(disk'[1])
                /\ next_shape_id' = 1]_vars

\* a shape was inserted behind the shapes loaded from a file, which kept the
\* ids stored in the file
C11_InsertedAfterLoad ==
    /\ last_call.op = "add_shape"
    /\ disk # <<>>
    /\ Len(disk[1]) >= 1
    /\ Len(shapes) = Len(disk[1]) + 1
    /\ IdsOf(SubSeq(shapes, 1, Len(disk[1]))) = IdsOf(disk[1])
    /\ Last(shapes).shape_id = 1
    /\ next_shape_id = 2

-----------------------------------------------------------------------------
(* Connections *)

\* the coordinate of one endpoint of a line
EndpointOf(l, endpoint) ==
    IF endpoint = "start" THEN <<l.x1, l.y1>> ELSE <<l.x2, l.y2>>

\* the step moves the selected shape as a whole: a drag with no handle held, or
\* the grid adjustment of the release that ends it
MovesSelected ==
    /\ last_call'.op \in {"on_drag", "on_release_move"}
    /\ pointer # <<>>
    /\ current_tool = "select"
    /\ selected_shape # NoSel
    /\ editing_endpoint = None /\ ~resizing_shape /\ editing_waypoint = NoWaypoint

\* C12: a connected endpoint holds the coordinate of the last resolution of its
\* connection: moving the line itself as a whole, which resolves nothing, leaves
\* the endpoints that have a connection entry where they are.
C12_MoveKeepsConnectedEndpoints ==
    [][(MovesSelected /\ Selected.shape_type \in LINE_TYPES)
          => \A n \in 1..Len(Selected.connections) :
                LET e == Selected.connections[n].endpoint
                IN  \/ shapes'[selected_shape].connections # Selected.connections
                    \/ EndpointOf(shapes'[selected_shape], e) = EndpointOf(Selected, e)]_vars

\* the anchor points of one shape, as a set
PointsOf(s) == {SnapPoints(s)[n] : n \in 1..Len(SnapPoints(s))}

\* the step loads the chosen file: open_drawing went through to rebuild_connections
Opens == last_call'.op = "open_drawing" /\ ~modified'

\* C13: a connection is resolved against its target only. After
\* update_connected_lines(B), run by a move of B, and after the
\* rebuild_connections of a load, every endpoint connected to B is at its
\* previous coordinate or on an anchor point of B, never on another shape's.
C13_ResolvesAgainstTargetOnly ==
    [][/\ (MovesSelected /\ Selected.shape_type \notin LINE_TYPES)
            => \A k \in 1..Len(shapes') : \A n \in 1..Len(shapes'[k].connections) :
                  LET c == shapes'[k].connections[n]
                  IN  (shapes'[k].shape_type \in LINE_TYPES
                         /\ c.target_id = Selected.shape_id)
                      => \/ EndpointOf(shapes'[k], c.endpoint)
                               = EndpointOf(shapes[k], c.endpoint)
                         \/ EndpointOf(shapes'[k], c.endpoint)
                               \in PointsOf(shapes'[selected_shape])
       /\ Opens
            => \A k \in 1..Len(shapes') : \A n \in 1..Len(shapes'[k].connections) :
                  LET c == shapes'[k].connections[n]
                      t == FindById(shapes', c.target_id)
                  IN  (shapes'[k].shape_type \in LINE_TYPES /\ t # 0)
                      => \/ EndpointOf(shapes'[k], c.endpoint)
                               = EndpointOf(FromDict(disk'[1][k]), c.endpoint)
                         \/ EndpointOf(shapes'[k], c.endpoint) \in PointsOf(shapes'[t])]_vars

\* the step is a pointer operation that changes the geometry of the selected
\* shape, a shape that can be a snap target
ReshapesTarget ==
    /\ last_call'.op \in {"on_drag", "on_release_move", "on_release_resize"}
    /\ selected_shape # NoSel
    /\ Len(shapes') = Len(shapes)
    /\ Selected.shape_type \notin LINE_TYPES
    /\ shapes'[selected_shape] # Selected

\* C14: every editing operation that changes the geometry of a shape that can
\* be a snap target (move drag, grid adjustment on release, corner resize) ends
\* with update_connected_lines for that shape: the drawing after the step is the
\* drawing with the new geometry, its connectors re-resolved.
C14_GeometryChangeUpdatesLines ==
    [][ReshapesTarget
          => shapes' = update_connected_lines(
                          [shapes EXCEPT ![selected_shape] = shapes'[selected_shape]],
                          selected_shape)]_vars

\* connection c of a line names a target id that no shape of ss carries
Dangling(ss, c) == FindById(ss, c.target_id) = 0

\* C15: a connection whose target id matches no live shape is left unresolved:
\* the rebuild_connections of a load keeps the endpoint at the coordinate read
\* from the file, and the update_connected_lines of a move keeps it where it was.
C15_DanglingTargetKeepsEndpoint ==
    [][/\ Opens
            => \A k \in 1..Len(shapes') : \A n \in 1..Len(shapes'[k].connections) :
                  LET c == shapes'[k].connections[n]
                  IN  (shapes'[k].shape_type \in LINE_TYPES /\ Dangling(shapes', c))
                      => EndpointOf(shapes'[k], c.endpoint)
                            = EndpointOf(FromDict(disk'[1][k]), c.endpoint)
       /\ MovesSelected
            => \A k \in 1..Len(shapes') : \A n \in 1..Len(shapes'[k].connections) :
                  LET c == shapes'[k].connections[n]
                  IN  (shapes'[k].shape_type \in LINE_TYPES /\ k # selected_shape
                         /\ Dangling(shapes', c))
                      => EndpointOf(shapes'[k], c.endpoint)
                            = EndpointOf(shapes[k], c.endpoint)]_vars

\* a drawing was loaded in which a dangling connection's endpoint lies within
\* snap distance of an anchor and stayed at its coordinate in the file
C15_DanglingNearAnchor ==
    /\ last_call.op = "open_drawing" /\ ~modified
    /\ \E k \in 1..Len(shapes) : \E n \in 1..Len(shapes[k].connections) :
          LET c == shapes[k].connections[n]
              p == EndpointOf(shapes[k], c.endpoint)
          IN  /\ shapes[k].shape_type \in LINE_TYPES
              /\ Dangling(shapes, c)
              /\ get_snap_point(shapes, p[1], p[2], k).shape # 0
              /\ p = EndpointOf(FromDict(disk[1][k]), c.endpoint)

-----------------------------------------------------------------------------
(* Snapping *)

\* the anchor points of a shape by its kind: a rectangle's corners and edge
\* midpoints, an ellipse's extreme points, a triangle's apex and base corners
AnchorSet(s) ==
    LET mx == (s.x1 + s.x2) \div 2
        my == (s.y1 + s.y2) \div 2
        rx == Abs(s.x2 - s.x1) \div 2
        ry == Abs(s.y2 - s.y1) \div 2
    IN  IF s.shape_type \in {"rectangle", "square"}
        THEN {<<x, y>> : x \in {s.x1, s.x2}, y \in {s.y1, s.y2}}
                \cup {<<mx, y>> : y \in {s.y1, s.y2}}
                \cup {<<x, my>> : x \in {s.x1, s.x2}}
        ELSE IF s.shape_type \in {"circle", "ellipse"}
        THEN {<<mx + d, my>> : d \in {-rx, rx}} \cup {<<mx, my + d>> : d \in {-ry, ry}}
        ELSE IF s.shape_type = "triangle"
        THEN {<<mx, s.y1>>, <<s.x1, s.y2>>, <<s.x2, s.y2>>}
        ELSE {}

\* the shapes of ss that can be matched: not the excluded one, not a line
Eligible(ss, exclude) ==
    {i \in 1..Len(ss) : i # exclude /\ ss[i].shape_type \notin LINE_TYPES}

\* squared distance from the query point (x, y) to the point a
D2(a, x, y) == Sq(x - a[1]) + Sq(y - a[2])

\* the query points and excluded shapes get_snap_point is examined at
SnapQueries == SnapPts \cup { <<40, 30>>, <<44, 10>> }

\* C16: get_snap_point returns an anchor and its shape exactly when some
\* eligible anchor is at a distance strictly less than snap_distance; otherwise
\* it returns the query point itself and no shape.
C16_SnapsBelowThreshold ==
    \A q \in SnapQueries : \A ex \in 0..Len(shapes) :
        LET r == get_snap_point(shapes, q[1], q[2], ex)
            near == \E i \in Eligible(shapes, ex) : \E a \in AnchorSet(shapes[i]) :
                       D2(a, q[1], q[2]) < Sq(snap_distance)
        IN  /\ (r.shape # 0) <=> near
            /\ r.shape # 0 => /\ r.shape \in 1..Len(shapes)
                               /\ <<r.x, r.y>> \in AnchorSet(shapes[r.shape])
            /\ r.shape = 0 => r.x = q[1] /\ r.y = q[2]

\* an endpoint is being dragged at a point exactly snap_distance from the nearest
\* eligible anchor, and nothing is matched
C16_ExactlyAtThreshold ==
    /\ last_call.op = "on_drag" /\ editing_endpoint # None /\ pointer # <<>>
    /\ selected_shape # NoSel
    /\ \E i \in Eligible(shapes, selected_shape) : \E a \in AnchorSet(shapes[i]) :
          D2(a, pointer[1], pointer[2]) = Sq(snap_distance)
    /\ \A i \in Eligible(shapes, selected_shape) : \A a \in AnchorSet(shapes[i]) :
          D2(a, pointer[1], pointer[2]) >= Sq(snap_distance)
    /\ get_snap_point(shapes, pointer[1], pointer[2], selected_shape).shape = 0
    /\ EndpointOf(Selected, editing_endpoint) = snap_point(pointer)

\* C17: a match of get_snap_point is the anchor at the least distance among
\* the anchors of all eligible shapes, the anchors of each kind of shape being
\* those of AnchorSet, and the shape returned is the owner of that anchor.
C17_NearestAnchorOfAll ==
    \A q \in SnapQueries : \A ex \in 0..Len(shapes) :
        LET r == get_snap_point(shapes, q[1], q[2], ex)
        IN  r.shape # 0
              => /\ r.shape \in Eligible(shapes, ex)
                 /\ <<r.x, r.y>> \in AnchorSet(shapes[r.shape])
                 /\ \A i \in Eligible(shapes, ex) : \A a \in AnchorSet(shapes[i]) :
                       D2(<<r.x, r.y>>, q[1], q[2]) <= D2(a, q[1], q[2])

\* an endpoint was dropped where two shapes have an anchor within snap_distance,
\* at different distances, and was connected to the owner of the nearer one
C17_NearerOfTwoShapes ==
    /\ last_call.op = "on_release_endpoint" /\ selected_shape # NoSel
    /\ \E n \in 1..Len(Selected.connections) :
          LET c == Selected.connections[n]
              p == EndpointOf(Selected, c.endpoint)
              r == get_snap_point(shapes, p[1], p[2], selected_shape)
          IN  /\ r.shape # 0
              /\ c.target_id = shapes[r.shape].shape_id
              /\ \E i \in Eligible(shapes, selected_shape) \ {r.shape} :
                    \E a \in AnchorSet(shapes[i]) :
                       /\ D2(a, p[1], p[2]) < Sq(snap_distance)
                       /\ D2(a, p[1], p[2]) > D2(<<r.x, r.y>>, p[1], p[2])

\* C18: get_snap_point never matches a line, arrow, ortho line or ortho arrow,
\* nor the excluded shape; so the connections of a line never name the line
\* itself or another line as their target.
C18_NeverLineNorExcluded ==
    /\ \A q \in SnapQueries : \A ex \in 0..Len(shapes) :
          LET r == get_snap_point(shapes, q[1], q[2], ex)
          IN  r.shape # 0 => /\ shapes[r.shape].shape_type \notin LINE_TYPES
                             /\ r.shape # ex
    /\ \A k \in 1..Len(shapes) : \A n \in 1..Len(shapes[k].connections) :
          LET t == FindById(shapes, shapes[k].connections[n].target_id)
          IN  t # 0 => t # k /\ shapes[t].shape_type \notin LINE_TYPES

\* an endpoint was dropped on an anchor and connected, in a drawing where a
\* query with a target shape excluded would otherwise match that shape
C18_ConnectedOnRelease ==
    /\ last_call.op = "on_release_endpoint" /\ selected_shape # NoSel
    /\ Selected.shape_type \in LINE_TYPES
    /\ \E n \in 1..Len(Selected.connections) :
          LET t == FindById(shapes, Selected.connections[n].target_id)
              p == EndpointOf(Selected, Selected.connections[n].endpoint)
          IN  /\ t # 0
              /\ get_snap_point(shapes, p[1], p[2], selected_shape).shape = t
              /\ get_snap_point(shapes, p[1], p[2], t).shape \notin {t, selected_shape}

\* the anchors, each with its owner, at the least distance from (x, y)
Nearest(ss, x, y, exclude) ==
    LET all == UNION { {[p |-> a, owner |-> i] : a \in AnchorSet(ss[i])} :
                          i \in Eligible(ss, exclude) }
    IN  {m \in all : \A o \in all : D2(m.p, x, y) <= D2(o.p, x, y)}

\* position of the point a in the anchor order of shape s
AnchorOrder(s, a) ==
    CHOOSE n \in 1..Len(SnapPoints(s)) :
        SnapPoints(s)[n] = a /\ \A m \in 1..(n - 1) : SnapPoints(s)[m] # a

\* C19: of several eligible anchors at the same least distance, below the
\* threshold, get_snap_point returns the first met: the one of the earliest
\* shape in the sequence and, within that shape, the earliest in its anchor order.
C19_FirstOfEquallyNear ==
    \A q \in SnapQueries : \A ex \in 0..Len(shapes) :
        LET r == get_snap_point(shapes, q[1], q[2], ex)
            N == Nearest(shapes, q[1], q[2], ex)
        IN  r.shape # 0
              => /\ [p |-> <<r.x, r.y>>, owner |-> r.shape] \in N
                 /\ \A m \in N :
                       \/ r.shape < m.owner
                       \/ /\ r.shape = m.owner
                          /\ AnchorOrder(shapes[r.shape], <<r.x, r.y>>)
                                <= AnchorOrder(shapes[m.owner], m.p)

\* an endpoint is being dragged at a point equally near to anchors of two
\* shapes, and sits on the anchor of the earlier shape
C19_TieBetweenShapes ==
    /\ last_call.op = "on_drag" /\ editing_endpoint # None /\ pointer # <<>>
    /\ selected_shape # NoSel
    /\ LET N == Nearest(shapes, pointer[1], pointer[2], selected_shape)
           r == get_snap_point(shapes, pointer[1], pointer[2], selected_shape)
       IN  /\ \E m, o \in N : m.owner < o.owner /\ m.p # o.p
           /\ r.shape # 0
           /\ \A m \in N : r.shape <= m.owner
           /\ EndpointOf(Selected, editing_endpoint) = <<r.x, r.y>>

-----------------------------------------------------------------------------
(* Routing *)

\* two points differ by at most 0.5 in x or by at most 0.5 in y
AxisAligned(a, b) == 2 * Abs(a[1] - b[1]) <= 1 \/ 2 * Abs(a[2] - b[2]) <= 1

\* C20: for the points of every ortho line drawn, under either routing, each two
\* consecutive points of the output of ortho_path are axis-aligned (they differ
\* by at most 0.5 in x or in y) and the output has at least as many points as
\* the input.
C20_RoutedPathAxisAligned ==
    \A k \in 1..Len(shapes) : \A routing \in {"h_first", "v_first"} :
        shapes[k].shape_type \in {"ortho_line", "ortho_arrow"}
          => LET path == ortho_path(AllPts(shapes[k]), routing)
             IN  /\ \A n \in 1..(Len(path) - 1) : AxisAligned(path[n], path[n + 1])
                 /\ Len(path) >= Len(AllPts(shapes[k]))

\* an ortho line through a waypoint was flipped to vertical-first, and each of
\* its two segments needed a bend point
C20_BentTwice ==
    /\ last_call.op = "flip_routing" /\ selected_shape # NoSel
    /\ Selected.shape_type = "ortho_line"
    /\ Selected.routing = "v_first"
    /\ Len(Selected.waypoints) = 1
    /\ ~AxisAligned(AllPts(Selected)[1], AllPts(Selected)[2])
    /\ ~AxisAligned(AllPts(Selected)[2], AllPts(Selected)[3])
    /\ Len(PathOf(Selected)) = Len(AllPts(Selected)) + 2

\* the call of ortho_path has returned: its input and its output
Returned == ortho_call.returned # <<>>
PathIn == ortho_call.points
PathOut == ortho_call.returned[1]

\* input step j, from point j to point j + 1, is not axis-aligned
Skew(points, j) == ~AxisAligned(points[j], points[j + 1])

\* where input point j stands in the output when every skew step before it has
\* received one bend point
PlaceOf(points, j) == j + Cardinality({m \in 1..(j - 1) : Skew(points, m)})

\* C21: when every two consecutive input points are already axis-aligned,
\* ortho_path returns the input itself, with no bend point, under either routing.
C21_AlignedInputUnchanged ==
    (Returned /\ \A j \in 1..(Len(PathIn) - 1) : ~Skew(PathIn, j))
        => PathOut = PathIn

\* a call on three aligned points that turn a corner has returned them as they are
C21_AlignedCorner ==
    /\ Returned
    /\ Len(PathIn) = 3
    /\ \A j \in 1..2 : ~Skew(PathIn, j)
    /\ PathIn[1] # PathIn[2] /\ PathIn[2] # PathIn[3] /\ PathIn[1] # PathIn[3]
    /\ PathOut = PathIn

\* C22: for every skew step from the last output point prev to the next input
\* point curr the output goes on with the bend (curr.x, prev.y) under h_first
\* and (prev.x, curr.y) under v_first and then with curr, on every segment.
C22_BendFollowsRouting ==
    Returned
        => \A j \in 1..(Len(PathIn) - 1) :
              Skew(PathIn, j)
                => LET prev == PathIn[j]
                       curr == PathIn[j + 1]
                       at   == PlaceOf(PathIn, j)
                   IN  /\ at + 2 <= Len(PathOut)
                       /\ PathOut[at] = prev
                       /\ PathOut[at + 1] = IF ortho_call.routing = "h_first"
                                             THEN <<curr[1], prev[2]>>
                                             ELSE <<prev[1], curr[2]>>
                       /\ PathOut[at + 2] = curr

\* a vertical-first call on three points with two skew steps has returned
C22_TwoBendsVerticalFirst ==
    /\ Returned
    /\ ortho_call.routing = "v_first"
    /\ Len(PathIn) = 3 /\ Skew(PathIn, 1) /\ Skew(PathIn, 2)
    /\ PathOut[2] = <<PathIn[1][1], PathIn[2][2]>>
    /\ PathOut[4] = <<PathIn[2][1], PathIn[3][2]>>

\* C23: at most one bend point is inserted per input segment: for n >= 2 input
\* points the output has between n and 2n - 1 points, begins with the first
\* input point, ends with the last, and holds the input points in their order.
C23_OneBendPerSegment ==
    (Returned /\ Len(PathIn) >= 2)
        => /\ Len(PathOut) >= Len(PathIn)
           /\ Len(PathOut) <= 2 * Len(PathIn) - 1
           /\ PathOut[1] = PathIn[1]
           /\ Last(PathOut) = Last(PathIn)
           /\ \E f \in [1..Len(PathIn) -> 1..Len(PathOut)] :
                 /\ \A j \in 1..(Len(PathIn) - 1) : f[j] < f[j + 1]
                 /\ \A j \in 1..Len(PathIn) : PathOut[f[j]] = PathIn[j]

\* a call on three points with two skew steps has returned the longest output
C23_LongestOutput ==
    /\ Returned
    /\ Len(PathIn) = 3 /\ Skew(PathIn, 1) /\ Skew(PathIn, 2)
    /\ Len(PathOut) = 2 * Len(PathIn) - 1

\* C24: called with no point or with one point, ortho_path returns a sequence
\* equal to its input, under either routing.
C24_FewerThanTwoPoints ==
    (Returned /\ Len(PathIn) < 2) => PathOut = PathIn

\* a vertical-first call on the empty list has returned
C24_EmptyListReturned ==
    /\ Returned
    /\ PathIn = <<>>
    /\ ortho_call.routing = "v_first"
    /\ PathOut = <<>>

-----------------------------------------------------------------------------
(* Copies *)

\* C25: Shape.copy() returns a new shape with x1, y1, x2, y2 and every waypoint
\* of the original shifted by (20, 20), no connections and the unassigned
\* id 0, and leaves the original as it was: so is the clipboard after copy_shape.
C25_CopyShiftedUnassigned ==
    [][last_call'.op = "copy_shape"
          => LET s == Selected
                 c == clipboard'[1]
             IN  /\ c.x1 = s.x1 + 20 /\ c.y1 = s.y1 + 20
                 /\ c.x2 = s.x2 + 20 /\ c.y2 = s.y2 + 20
                 /\ Len(c.waypoints) = Len(s.waypoints)
                 /\ \A k \in 1..Len(s.waypoints) :
                       c.waypoints[k] = <<s.waypoints[k][1] + 20, s.waypoints[k][2] + 20>>
                 /\ c.connections = <<>>
                 /\ c.shape_id = 0
                 /\ shapes' = shapes]_vars

-----------------------------------------------------------------------------
(* Connection entries *)

\* the step is the release that drops endpoint e of the selected line: the
\* endpoint handle of a line, or the start or end handle of an ortho line
Drops(e) ==
    /\ selected_shape # NoSel
    /\ \/ last_call'.op = "on_release_endpoint" /\ editing_endpoint = e
       \/ /\ last_call'.op = "on_release_waypoint"
          /\ editing_waypoint # NoWaypoint /\ editing_waypoint.kind = e

\* the entries of a connections list for endpoint e
EntriesFor(conns, e) == SelectSeq(conns, LAMBDA c : c.endpoint = e)

\* C26: after endpoint drops every line has at most one connection entry for
\* 'start' and at most one for 'end'; a drop of an endpoint replaces the entry of
\* that endpoint by the one for the shape matched, or removes it when no shape
\* is matched, and leaves the entry of the other endpoint as it was.
C26_OneEntryPerEndpoint ==
    /\ [](\A k \in 1..Len(shapes) : \A e \in {"start", "end"} :
             Len(EntriesFor(shapes[k].connections, e)) <= 1)
    /\ [][\A e \in {"start", "end"} :
            Drops(e)
              => LET old   == Selected.connections
                     new   == shapes'[selected_shape].connections
                     other == IF e = "start" THEN "end" ELSE "start"
                     at    == IF last_call'.op = "on_release_endpoint" THEN pointer
                              ELSE EndpointOf(Selected, e)
                     r     == get_snap_point(shapes, at[1], at[2], selected_shape)
                 IN  /\ EntriesFor(new, other) = EntriesFor(old, other)
                     /\ EntriesFor(new, e) =
                           IF r.shape # 0
                           THEN <<[target_id |-> shapes[r.shape].shape_id, endpoint |-> e]>>
                           ELSE <<>>
                     /\ Len(new) <= 2]_vars

\* an endpoint connected in the file was dropped on another shape: its entry
\* names the new target and the entry of the other endpoint is the file's
C26_EndpointRetargeted ==
    /\ last_call.op \in {"on_release_endpoint", "on_release_waypoint"}
    /\ selected_shape # NoSel /\ disk # <<>> /\ Len(shapes) = Len(disk[1])
    /\ LET old == disk[1][selected_shape].connections
           new == Selected.connections
       IN  \E a \in 1..Len(old) : \E b, c \in 1..Len(new) :
              /\ old[a].endpoint = new[b].endpoint
              /\ old[a].target_id # new[b].target_id
              /\ new[c].endpoint # new[b].endpoint
              /\ \E d \in 1..Len(old) : old[d] = new[c]

-----------------------------------------------------------------------------
(* Files *)

\* C28: saving the drawing and loading the file gives back the drawing saved:
\* the same shapes in the same order with every field of their records, and
\* the same id counter.  The step loads a file that holds the drawing as it is.
C28_SaveLoadRoundTrip ==
    [][(Opens /\ disk' = <<Saved(shapes)>>)
          => /\ Saved(shapes') = Saved(shapes)
             /\ next_shape_id' = next_shape_id]_vars

\* C29: from_dict on a record without 'routing' or without 'waypoints' gives
\* a shape with routing h_first, respectively no waypoints; every field the
\* record has is taken as it is.  The records are those of a file loaded.
C29_OptionalFieldsDefaulted ==
    [][Opens
          => /\ Len(shapes') = Len(disk'[1])
             /\ \A k \in 1..Len(shapes') :
                   LET d == disk'[1][k]
                       s == shapes'[k]
                   IN  /\ "routing" \notin DOMAIN d => s.routing = "h_first"
                       /\ "waypoints" \notin DOMAIN d => s.waypoints = <<>>
                       /\ \A f \in DOMAIN d : s[f] = d[f]]_vars

\* a file was loaded whose ortho line record has neither routing nor waypoints,
\* and whose rectangle record has both
C29_LoadedWithoutBoth ==
    /\ last_call.op = "open_drawing" /\ ~modified
    /\ Len(shapes) = 2
    /\ {"routing", "waypoints"} \subseteq DOMAIN disk[1][1]
    /\ {"routing", "waypoints"} \cap DOMAIN disk[1][2] = {}
    /\ shapes[2].shape_type = "ortho_line"
    /\ shapes[2].routing = "h_first" /\ shapes[2].waypoints = <<>>

\* C30: open_drawing of a file in which a record lacks a coordinate or the
\* shape type surfaces the error and returns False; no live shape comes from
\* the record that lacks the field: every live shape is a complete record of
\* the file.
C30_MalformedRecordFails ==
    [][((Opens \/ last_call'.op = "showerror") /\ LoadFails(disk'[1]))
          => /\ last_call'.op = "showerror"
             /\ \A k \in 1..Len(shapes') :
                   \E j \in 1..Len(disk'[1]) :
                      /\ Loadable(disk'[1][j])
                      /\ \A f \in DOMAIN disk'[1][j] : shapes'[k][f] = disk'[1][j][f]
             /\ Len(shapes') <= Cardinality({j \in 1..Len(disk'[1]) : Loadable(disk'[1][j])})]_vars

\* the load failed on the second record, which has no x2, after the first
\* record had become a shape
C30_FailedOnSecondRecord ==
    /\ last_call.op = "showerror"
    /\ Len(disk[1]) = 2
    /\ Loadable(disk[1][1])
    /\ "x2" \notin DOMAIN disk[1][2]
    /\ Len(shapes) = 1
    /\ shapes[1].shape_id = disk[1][1].shape_id

-----------------------------------------------------------------------------
(* History *)

\* the stack `after` is the stack `before` with its entries as they were, after
\* at most a push or a pop at the top and the eviction of the oldest entry
SameEntries(before, after) ==
    \/ after = <<>>
    \/ Len(after) <= Len(before) /\ after = SubSeq(before, 1, Len(after))
    \/ Len(after) = Len(before) + 1 /\ Front(after) = before
    \/ Len(after) = Len(before) /\ before # <<>> /\ Front(after) = Tail(before)

C32_UndoRestoresDeleted ==
    [][(last_call.op = "delete_selected" /\ last_call'.op = "undo" /\ recorded # <<>>)
          => LET pre == Last(recorded)
                 B   == last_call.arg
             IN  /\ \E p \in 1..Len(pre.shapes) :
                       /\ pre.shapes[p].shape_id = B
                       /\ IdsOf(SubSeq(pre.shapes, 1, p - 1)
                                  \o SubSeq(pre.shapes, p + 1, Len(pre.shapes)))
                             = IdsOf(shapes)
                 /\ IdsOf(shapes') = IdsOf(pre.shapes)
                 /\ \A k \in 1..Len(shapes') :
                       shapes'[k].connections = pre.shapes[k].connections
                 /\ next_shape_id' = pre.next_id]_vars

\* the deletion of a shape that a line is connected to was undone: the shape
\* and the connection to it are back
C32_TargetBackAfterUndo ==
    /\ last_call.op = "undo"
    /\ redo_stack # <<>>
    /\ \E i, j \in 1..Len(shapes) :
          /\ \A k \in 1..Len(Last(redo_stack).shapes) :
                Last(redo_stack).shapes[k].shape_id # shapes[i].shape_id
          /\ \E n \in 1..Len(shapes[j].connections) :
                shapes[j].connections[n].target_id = shapes[i].shape_id

\* C33: the two stacks together never hold more than max_undo snapshots: undo
\* and redo each move one entry from one stack to the other, so the undo stack
\* stays within max_undo although redo pushes onto it without a check, and the
\* redo stack stays within max_undo too.
C33_StacksTogetherBounded ==
    /\ Len(undo_stack) + Len(redo_stack) <= max_undo
    /\ Len(undo_stack) <= max_undo
    /\ Len(redo_stack) <= max_undo

\* redo has just pushed the snapshot that fills the undo stack to max_undo
C33_RedoFillsUndoStack ==
    /\ last_call.op = "redo"
    /\ Len(undo_stack) = max_undo
    /\ redo_stack = <<>>

\* every connection of every shape of ss names a shape of ss
Anchored(ss) ==
    \A k \in 1..Len(ss) : \A n \in 1..Len(ss[k].connections) :
        \E j \in 1..Len(ss) : ss[j].shape_id = ss[k].connections[n].target_id

\* C34: without any file loaded, no connection dangles: every connection of a
\* live shape names a live shape, and every connection of a shape in a snapshot
\* on the undo or the redo stack names a shape of that snapshot.
C34_NoDanglingConnection ==
    /\ Anchored(shapes)
    /\ \A n \in 1..Len(undo_stack) : Anchored(undo_stack[n].shapes)
    /\ \A n \in 1..Len(redo_stack) : Anchored(redo_stack[n].shapes)

\* the rectangle a line was connected to has just been deleted: the line is
\* live without connection, and the snapshot taken by the deletion has the
\* connection and the rectangle
C34_TargetDeleted ==
    /\ last_call.op = "delete_selected"
    /\ undo_stack # <<>>
    /\ \E k \in 1..Len(shapes) :
          /\ shapes[k].shape_type \in LINE_TYPES
          /\ shapes[k].connections = <<>>
          /\ \E j \in 1..Len(Last(undo_stack).shapes) :
                LET r == Last(undo_stack).shapes[j]
                IN  /\ r.shape_id = shapes[k].shape_id
                    /\ r.connections # <<>>
                    /\ r.connections[1].target_id \notin AllIds(shapes)

\* C35: rebuild_connections run twice in succession leaves the shapes as
\* rebuild_connections run once leaves them, whatever the drawing.
C35_RebuildIdempotent ==
    rebuild_connections(rebuild_connections(shapes)) = rebuild_connections(shapes)

\* a drawing in which rebuild_connections moves an endpoint: a line is
\* connected to a shape, and its endpoint is off the anchor it resolves to
C35_RebuildMovesEndpoint ==
    \E k \in 1..Len(shapes) :
        /\ shapes[k].shape_type \in LINE_TYPES
        /\ shapes[k].connections # <<>>
        /\ \E ep \in {"start", "end"} :
              EndpointOf(rebuild_connections(shapes)[k], ep) # EndpointOf(shapes[k], ep)

\* endpoint ep of line l has a connection entry to the shape with the id
Targets(l, ep, id) ==
    \E n \in 1..Len(l.connections) :
        l.connections[n].target_id = id /\ l.connections[n].endpoint = ep

\* the shapes `after` are the shapes `before` but for the endpoints of lines
\* connected to the shape at position mi
Framed(before, after, mi) ==
    /\ Len(after) = Len(before)
    /\ \A k \in 1..Len(before) :
          /\ \A f \in DictFields \ {"x1", "y1", "x2", "y2"} : after[k][f] = before[k][f]
          /\ \A ep \in {"start", "end"} :
                \/ EndpointOf(after[k], ep) = EndpointOf(before[k], ep)
                \/ /\ before[k].shape_type \in LINE_TYPES
                   /\ Targets(before[k], ep, before[mi].shape_id)

\* C36: update_connected_lines(B) changes only the endpoints of lines whose
\* connection names B: every other coordinate, every connections list, every
\* id, the order, the waypoints and all other shapes stay, on any live drawing
\* and for any B; and the drag step that calls it leaves next_shape_id and both
\* history stacks alone.
C36_UpdateTouchesOnlyConnectedEnds ==
    /\ [](\A mi \in 1..Len(shapes) : Framed(shapes, update_connected_lines(shapes, mi), mi))
    /\ [][(MovesSelected /\ last_call'.op = "on_drag")
             => /\ Framed([shapes EXCEPT ![selected_shape] =
                              Moved(@, pointer'[1] - drag_data[1].x,
                                       pointer'[2] - drag_data[1].y)],
                          shapes', selected_shape)
                /\ next_shape_id' = next_shape_id
                /\ undo_stack' = undo_stack
                /\ redo_stack' = redo_stack]_vars

\* a shape has been dragged away from where the file had it, and the end of a
\* line connected to it lies on one of its anchors, while the line's other end
\* is where the file had it
C36_ConnectedEndFollowed ==
    /\ last_call.op = "on_drag"
    /\ selected_shape # NoSel
    /\ Selected.x1 # FromDict(disk[1][selected_shape]).x1
    /\ \E k \in 1..Len(shapes) : \E ep \in {"start", "end"} :
          /\ shapes[k].shape_type \in LINE_TYPES
          /\ Targets(shapes[k], ep, Selected.shape_id)
          /\ EndpointOf(shapes[k], ep) \in PointsOf(Selected)
          /\ EndpointOf(shapes[k], ep) # EndpointOf(FromDict(disk[1][k]), ep)

\* C37: once the drawing has been saved, every operation that changes the
\* shapes, undo and redo included, leaves the modified flag set; the operations
\* that replace the drawing (new, open) are the ones that reset it.
C37_ChangeMarksModified ==
    [][(/\ disk # <<>>
        /\ last_call'.op \notin {"new_drawing", "open_drawing", "showerror"}
        /\ Saved(shapes') # Saved(shapes))
          => modified']_vars

\* C38: an open_drawing that fails on the file chosen leaves the drawing as it
\* was before the call: the same shapes and the same next_shape_id, nothing
\* cleared and nothing partially loaded.
C38_FailedLoadKeepsDrawing ==
    [][last_call'.op = "showerror"
          => /\ Saved(shapes') = Saved(shapes)
             /\ next_shape_id' = next_shape_id]_vars

-----------------------------------------------------------------------------
(* Cancelling an ortho line *)

\* the step cancels the ortho line in progress: Escape, the choice of a tool, or
\* Enter before any waypoint
CancelsOrtho ==
    /\ ortho_in_progress
    /\ \/ last_call'.op \in {"deselect_all", "select_tool"}
       \/ last_call'.op = "cancel_ortho_drawing"

\* the step is a click of the ortho line being drawn
ClicksOrtho ==
    /\ current_tool \in {"ortho_line", "ortho_arrow"}
    /\ last_call'.op = "on_press"

\* C39: an ortho line begun and then cancelled (Escape, the choice of a tool,
\* Enter before any waypoint) leaves the shapes, next_shape_id and both history
\* stacks as they were: neither its clicks nor the cancellation touch them; and
\* the cancellation leaves ortho_in_progress false, ortho_start cleared and
\* ortho_waypoints empty.
C39_CancelLeavesNoTrace ==
    [][/\ (ClicksOrtho \/ CancelsOrtho)
            => /\ shapes' = shapes
               /\ next_shape_id' = next_shape_id
               /\ undo_stack' = undo_stack
               /\ redo_stack' = redo_stack
       /\ CancelsOrtho
            => /\ ~ortho_in_progress'
               /\ ortho_start' = <<>>
               /\ ortho_waypoints' = <<>>
       /\ last_call'.op = "cancel_ortho_drawing" => ortho_waypoints = <<>>]_vars

\* Enter has cancelled an ortho line begun after a rectangle was drawn and one
\* step undone: both stacks hold a snapshot
C39_CancelledByEnter ==
    /\ last_call.op = "cancel_ortho_drawing"
    /\ ~ortho_in_progress
    /\ undo_stack # <<>> /\ redo_stack # <<>>

-----------------------------------------------------------------------------
(* Selection *)

\* the step takes shape objects out of the drawing: a deletion, or a clear,
\* restore or load that replaces them all
ReplacesShapes ==
    /\ last_call'.op \in {"delete_selected", "undo", "redo", "new_drawing",
                          "open_drawing", "showerror"}
    /\ \/ Saved(shapes') # Saved(shapes)
       \/ undo_stack' # undo_stack
       \/ redo_stack' # redo_stack

=============================================================================
